---- MODULE Spec2Model ----
(***************************************************************************)
(* Model of go-homebank-csv's batch orchestrator (package batchconvert),   *)
(* the settings validation it calls (package settings) and the parser      *)
(* registry it drives (package parser).                                    *)
(*                                                                         *)
(* Strings that the code inspects character by character (paths, file      *)
(* names, glob patterns) are sequences of one-character strings.  A path   *)
(* is a record [dir, name]: the directory it was joined from and the last  *)
(* path element.  Times are integers (days); ZeroTime is Go's time.Time{}. *)
(***************************************************************************)
EXTENDS Integers, Sequences, FiniteSets, TLC

(***************************************************************************)
(* Bounds of the model.                                                    *)
(***************************************************************************)
\* sets in one settings value
MaxSets == 2
\* largest modification time of a file in the initial file system
MaxTime == 2

(***************************************************************************)
(* Program constants.                                                      *)
(***************************************************************************)
NotStartedYet == 0
Skipped == 1
ConversionInProgress == 2
ConversionError == 3
ConversionSuccess == 4

ZeroTime == 0

MoneyWallet == "MoneyWallet"
Barclaycard == "Barclaycard"
Volksbank == "Volksbank"
Comdirect == "Comdirect"
DKB == "DKB"
\* the keys of the map sourceFormats
SourceFormats == {MoneyWallet, Barclaycard, Volksbank, Comdirect, DKB}
\* a nil *SourceFormat, a nil Parser
NilFormat == "nil"

(***************************************************************************)
(* Characters and strings.                                                 *)
(***************************************************************************)
\* the characters the model uses, in ascending byte order
Alphabet == <<"*", ".", "/", "?", "A", "B", "C", "F", "H", "M", "[", "a", "b", "c", "l", "s", "v", "x", "~">>

Ord(c) == CHOOSE i \in 1..Len(Alphabet) : Alphabet[i] = c

RECURSIVE StrLess(_, _)
\* s < t for Go strings (bytewise lexicographic)
StrLess(s, t) ==
    IF t = <<>> THEN FALSE
    ELSE IF s = <<>> THEN TRUE
    ELSE IF Head(s) = Head(t) THEN StrLess(Tail(s), Tail(t))
    ELSE Ord(Head(s)) < Ord(Head(t))

HasPrefix(s, p) == Len(s) >= Len(p) /\ SubSeq(s, 1, Len(p)) = p

HasSuffix(s, p) == Len(s) >= Len(p) /\ SubSeq(s, Len(s) - Len(p) + 1, Len(s)) = p

\* strings.TrimSuffix
TrimSuffix(s, p) == IF HasSuffix(s, p) THEN SubSeq(s, 1, Len(s) - Len(p)) ELSE s

\* filepath.Ext of a last path element: the suffix from its final dot, or ""
Ext(name) ==
    IF \E i \in 1..Len(name) : name[i] = "."
    THEN LET i == CHOOSE k \in 1..Len(name) :
                    name[k] = "." /\ \A j \in (k+1)..Len(name) : name[j] # "."
         IN SubSeq(name, i, Len(name))
    ELSE <<>>

CsvExt == <<".", "c", "s", "v">>

\* the full path string of a path record
PathStr(p) == IF p.dir = <<>> THEN p.name ELSE p.dir \o <<"/">> \o p.name

(***************************************************************************)
(* The file system.  The working directory holds the directories DirA,     *)
(* DirB and DirC and the regular file DirF; no entry is called DirM.  The  *)
(* program creates and removes no directory, so this part is fixed; the    *)
(* files inside the directories are the variable fs.                       *)
(***************************************************************************)
DirA == <<"A">>
DirB == <<"B">>
DirC == <<"C">>
DirF == <<"F">>
DirM == <<"M">>
\* a directory name that is a malformed glob pattern
DirMeta == <<"[">>
\* a directory name that is a well-formed glob pattern
DirAny == <<"?">>
HomeDir == <<"H">>

RealDirs == {DirA, DirB, DirC}

DirKind(d) == IF d \in RealDirs THEN "dir" ELSE IF d = DirF THEN "file" ELSE "none"

\* the entries of the working directory
RootEntries == RealDirs \cup {DirF}

NameACsv == <<"a", ".", "c", "s", "v">>
NameAXlsx == <<"a", ".", "x", "l", "s", "x">>
NameB == <<"b">>
NameBCsv == <<"b", ".", "c", "s", "v">>

FileNames == {NameACsv, NameAXlsx, NameB, NameBCsv}

AllPaths == {[dir |-> d, name |-> n] : d \in RealDirs, n \in FileNames}

NoFile == [content |-> "none", mtime |-> ZeroTime]

\* os.Stat(path) and os.Lstat(path) return no error
Exists(files, p) == p \in AllPaths /\ files[p].content # "none"

(***************************************************************************)
(* path/filepath.Match and path/filepath.Glob, for patterns made of        *)
(* literal characters, "*", "?" and an unterminated "[".                   *)
(***************************************************************************)
MetaChars == {"*", "?", "[", "\\"}

HasMeta(s) == \E i \in 1..Len(s) : s[i] \in MetaChars

\* filepath.Match(p, name) returns ErrBadPattern
IsBadPattern(p) ==
    \E i \in 1..Len(p) : p[i] = "[" /\ ~ \E j \in (i+2)..Len(p) : p[j] = "]"

RECURSIVE MatchFrom(_, _)
\* filepath.Match(p, n) for a well-formed p and a name n without separator
MatchFrom(p, n) ==
    IF p = <<>> THEN n = <<>>
    ELSE IF Head(p) = "*"
         THEN \E k \in 0..Len(n) : MatchFrom(Tail(p), SubSeq(n, k + 1, Len(n)))
    ELSE IF n = <<>> THEN FALSE
    ELSE IF Head(p) = "?" THEN MatchFrom(Tail(p), Tail(n))
    ELSE Head(p) = Head(n) /\ MatchFrom(Tail(p), Tail(n))

\* settings.IsFileGlobPatternValid
IsFileGlobPatternValid(pattern) == ~ IsBadPattern(pattern)

\* filepath.glob(dir, pattern): the entries of the directory dir that match
GlobDir(files, d, pattern) ==
    IF DirKind(d) # "dir" THEN {}
    ELSE {p \in AllPaths : p.dir = d /\ Exists(files, p) /\ MatchFrom(pattern, p.name)}

\* filepath.Glob(filepath.Join(dir, pattern)) for a dir and a pattern without separator
Glob(files, dir, pattern) ==
    LET whole == dir \o <<"/">> \o pattern IN
    IF IsBadPattern(whole) THEN [err |-> TRUE, files |-> {}]
    ELSE IF ~ HasMeta(whole)
         THEN [err |-> FALSE,
               files |-> {p \in AllPaths : p.dir = dir /\ p.name = pattern /\ Exists(files, p)}]
    ELSE IF ~ HasMeta(dir) THEN [err |-> FALSE, files |-> GlobDir(files, dir, pattern)]
    ELSE [err |-> FALSE,
          files |-> UNION {GlobDir(files, d, pattern) : d \in {e \in RootEntries : MatchFrom(dir, e)}}]

RECURSIVE SortStrings(_)
\* sort.Strings: the paths of the set S as a sequence in ascending order
SortStrings(S) ==
    IF S = {} THEN <<>>
    ELSE LET m == CHOOSE x \in S : \A y \in S \ {x} : StrLess(PathStr(x), PathStr(y))
         IN <<m>> \o SortStrings(S \ {m})

\* getTimeFromMaxAgeDays
getTimeFromMaxAgeDays(fileMaxAgeDays, nowTime) ==
    IF fileMaxAgeDays = 0 THEN ZeroTime ELSE nowTime - fileMaxAgeDays

\* findFiles: [err, files], files a sorted sequence of paths
findFiles(files, inputDir, fileGlobPattern, minTime) ==
    IF Len(inputDir) = 0 THEN [err |-> FALSE, files |-> <<>>]
    ELSE LET pattern == IF fileGlobPattern = <<>> THEN <<"*">> ELSE fileGlobPattern
             g == Glob(files, inputDir, pattern)
             matchingFiles == {p \in g.files :
                                 \/ minTime = ZeroTime
                                 \/ files[p].mtime >= minTime}
         IN IF g.err THEN [err |-> TRUE, files |-> <<>>]
            ELSE [err |-> FALSE, files |-> SortStrings(matchingFiles)]

(***************************************************************************)
(* Package settings: path normalisation and validation of the sets.        *)
(* A set is [Name, InputDir, OutputDir, Format, FileGlobPattern,           *)
(* FileMaxAgeDays]; Name is a plain string, Format is NilFormat or a       *)
(* source format.                                                          *)
(***************************************************************************)
RECURSIVE TrimLeftSep(_)
\* strings.TrimLeft(s, "/\\")
TrimLeftSep(s) ==
    IF s # <<>> /\ Head(s) \in {"/", "\\"} THEN TrimLeftSep(Tail(s)) ELSE s

RECURSIVE Clean(_)
\* filepath.Clean, for paths without "." and ".." elements and without doubled
\* separators: trailing separators are removed
Clean(path) ==
    IF Len(path) > 1 /\ path[Len(path)] = "/" THEN Clean(SubSeq(path, 1, Len(path) - 1))
    ELSE path

\* expandHome: [err, path]
expandHome(path) ==
    IF path = <<"~">> THEN [err |-> FALSE, path |-> HomeDir]
    ELSE IF Len(path) > 1 /\ path[2] \notin {"/", "\\"} THEN [err |-> TRUE, path |-> <<>>]
    ELSE LET trimmed == TrimLeftSep(Tail(path)) IN
         IF trimmed = <<>> THEN [err |-> FALSE, path |-> HomeDir]
         ELSE [err |-> FALSE, path |-> HomeDir \o <<"/">> \o trimmed]

\* expandPath: [err, path]; no path of the model starts with "xdg:"
expandPath(raw) ==
    IF raw = <<>> THEN [err |-> FALSE, path |-> <<>>]
    ELSE LET h == IF HasPrefix(raw, <<"~">>) THEN expandHome(raw)
                  ELSE [err |-> FALSE, path |-> raw]
         IN IF h.err THEN h ELSE [err |-> FALSE, path |-> Clean(h.path)]

\* BatchConvertSet.NormalizePaths: [err, set]
NormalizeSet(set) ==
    LET expandedInput == expandPath(set.InputDir)
        expandedOutput == expandPath(set.OutputDir)
    IN IF expandedInput.err \/ expandedOutput.err THEN [err |-> TRUE, set |-> set]
       ELSE [err |-> FALSE,
             set |-> [set EXCEPT !.InputDir = expandedInput.path,
                                 !.OutputDir = expandedOutput.path]]

RECURSIVE NormalizePathsFrom(_, _)
\* BatchConvertSets.NormalizePaths from index i on: the sets before the first
\* failing one are rewritten in place, the failing one and the rest are not
NormalizePathsFrom(s, i) ==
    IF i > Len(s) THEN [err |-> FALSE, sets |-> s]
    ELSE LET n == NormalizeSet(s[i]) IN
         IF n.err THEN [err |-> TRUE, sets |-> s]
         ELSE NormalizePathsFrom([s EXCEPT ![i] = n.set], i + 1)

\* BatchConvertSets.NormalizePaths
NormalizePaths(s) == NormalizePathsFrom(s, 1)

\* BatchConvertSet.CheckValidity returns an error
SetInvalid(set) ==
    \/ set.Name = ""
    \/ set.InputDir = <<>>
    \/ set.OutputDir = <<>>
    \/ set.InputDir = set.OutputDir
    \/ set.FileMaxAgeDays < 0
    \/ ~ IsFileGlobPatternValid(set.FileGlobPattern)

\* SetsInvalid, were the first set the only one checked
SetsInvalidFirstOnly(s) == Len(s) > 0 /\ SetInvalid(s[1])

\* BatchConvertSets.CheckValidity returns an error
SetsInvalid(s) ==
    \E i \in 1..Len(s) :
        \/ SetInvalid(s[i])
        \/ \E j \in 1..(i-1) : s[j].Name = s[i].Name
        \/ \E j \in 1..(i-1) :
              s[j].InputDir \o s[j].FileGlobPattern = s[i].InputDir \o s[i].FileGlobPattern

(***************************************************************************)
(* Package parser: the registry, autodetection and the writer.  The        *)
(* content of a file is one of a few kinds, each standing for the files    *)
(* on which the five ParseFile methods behave as the table says.           *)
(***************************************************************************)
\* GetParser: the parser type built for a format
GetParser(f) ==
    CASE f = MoneyWallet -> "moneywalletParser"
      [] f = Barclaycard -> "barclaycardParser"
      [] f = Volksbank -> "volksbankParser"
      [] f = Comdirect -> "comdirectParser"
      [] f = DKB -> "dkbParser"
      [] OTHER -> "nil"

\* GetFormat, were volksbankParser.GetFormat a copy of dkbParser.GetFormat
GetFormatCopied(p) ==
    CASE p = "moneywalletParser" -> MoneyWallet
      [] p = "barclaycardParser" -> Barclaycard
      [] p = "volksbankParser" -> DKB
      [] p = "comdirectParser" -> Comdirect
      [] p = "dkbParser" -> DKB

\* Parser.GetFormat of each parser type
GetFormat(p) ==
    CASE p = "moneywalletParser" -> MoneyWallet
      [] p = "barclaycardParser" -> Barclaycard
      [] p = "volksbankParser" -> Volksbank
      [] p = "comdirectParser" -> Comdirect
      [] p = "dkbParser" -> DKB

\* contents written by writeHomeBankRecords, by the parser that converted
HomebankContents ==
    {"homebank_moneywallet", "homebank_barclaycard", "homebank_volksbank",
     "homebank_comdirect", "homebank_dkb"}

\* kinds of file content:
\*   volksbank          a Volksbank CSV export with well-formed rows
\*   barclaycard        a Barclaycard workbook with well-formed, full rows
\*   barclaycard_short  a Barclaycard workbook with a row after the header
\*                      that has fewer cells than the parser reads
\*   comdirect_dkb      a CSV with the Comdirect header row, the DKB header
\*                      row and no data row
\*   empty              an empty file
\*   old                a file left in an output directory before the run
\*   truncated          an output file whose write failed after its creation
Contents ==
    {"volksbank", "barclaycard", "barclaycard_short", "comdirect_dkb", "empty",
     "old", "truncated"} \cup HomebankContents

\* Parser.ParseFile of parser type p on a file of the given content:
\* "ok" (nil), "error" (a *ParserError) or "panic" (index out of range)
ParseFile(p, content) ==
    CASE p = "moneywalletParser" -> "error"
      [] p = "barclaycardParser" ->
            IF content = "barclaycard" THEN "ok"
            ELSE IF content = "barclaycard_short" THEN "panic"
            ELSE "error"
      [] p = "volksbankParser" -> IF content = "volksbank" THEN "ok" ELSE "error"
      [] p = "comdirectParser" -> IF content = "comdirect_dkb" THEN "ok" ELSE "error"
      [] p = "dkbParser" -> IF content = "comdirect_dkb" THEN "ok" ELSE "error"

\* GetSourceFormats: the keys of a Go map, in any order
FormatOrders ==
    {o \in [1..Cardinality(SourceFormats) -> SourceFormats] :
        \A i, j \in DOMAIN o : i # j => o[i] # o[j]}

RECURSIVE GuessFrom(_, _, _)
\* GetGuessedParser's loop over the formats order[i..]: a parser type, "nil"
\* or "panic"
GuessFrom(order, i, content) ==
    IF i > Len(order) THEN "nil"
    ELSE LET p == GetParser(order[i])
             r == ParseFile(p, content)
         IN IF r = "panic" THEN "panic"
            ELSE IF r = "ok" THEN p
            ELSE GuessFrom(order, i + 1, content)

\* GetGuessedParser, with the order GetSourceFormats returned
GetGuessedParser(order, content) == GuessFrom(order, 1, content)

\* the file ConvertToHomebank of parser type p writes
HomebankOf(p) ==
    CASE p = "moneywalletParser" -> "homebank_moneywallet"
      [] p = "barclaycardParser" -> "homebank_barclaycard"
      [] p = "volksbankParser" -> "homebank_volksbank"
      [] p = "comdirectParser" -> "homebank_comdirect"
      [] p = "dkbParser" -> "homebank_dkb"

\* what writeHomeBankRecords can do: return nil, fail in os.Create, fail in
\* a write after os.Create
WriteOutcomes == {"ok", "createfail", "writefail"}

\* the file system after writeHomeBankRecords(records, outfile) by parser type p
writeHomeBankRecords(files, p, outfile, outcome, clock) ==
    IF outcome = "createfail" THEN files
    ELSE [files EXCEPT ![outfile] =
            [content |-> IF outcome = "ok" THEN HomebankOf(p) ELSE "truncated",
             mtime |-> clock]]

\* the output path of an input file: filepath.Join(OutputDir, filepath.Base(
\* strings.TrimSuffix(infile, filepath.Ext(infile)) + ".csv"))
OutputPath(outputDir, infile) ==
    [dir |-> outputDir, name |-> TrimSuffix(infile.name, Ext(infile.name)) \o CsvExt]

\* GetStats, were a Skipped file counted as left
GetStatsSkippedLeft(b) ==
    [done |-> Cardinality({i \in 1..Len(b.Files) :
                             b.Files[i].Status \notin {NotStartedYet, Skipped}}),
     left |-> Cardinality({i \in 1..Len(b.Files) :
                             b.Files[i].Status \in {NotStartedYet, Skipped}})]

\* BatchSetStatus.GetStats
GetStats(b) ==
    [done |-> Cardinality({i \in 1..Len(b.Files) : b.Files[i].Status # NotStartedYet}),
     left |-> Cardinality({i \in 1..Len(b.Files) : b.Files[i].Status = NotStartedYet})]

(***************************************************************************)
(* Package batchconvert: the state of one call of BatchConvert.            *)
(***************************************************************************)
VARIABLES
    sets,        \* s.Sets, the caller's slice (NormalizePaths rewrites it in place)
    now,         \* the parameter now
    hasCb,       \* the parameter c is not nil
    userData,    \* the parameter userData
    fs,          \* the files in the directories: path -> [content, mtime]
    pc,          \* where the call stands: "enter", "set", "file", "convert",
                 \* "returned", "panicked"
    setNr,       \* index of the set being processed (1-based)
    fileNr,      \* index of the file being processed (1-based)
    fileList,    \* the files findFiles returned for the set
    status,      \* the status tree; <<>> is the nil BatchStatus
    err,         \* the error result; "nil" or what failed
    run,         \* 1 in the first call; 2 in a second call with the same settings
    cbCount,     \* how many times the callback was invoked in this run
    cbStatus,    \* the status tree the callback was last given
    cbUserData,  \* the userData the callback was last given
    cbSeen,      \* per set and file, the statuses the callback saw, in order
    parsed,      \* the input files a ParseFile was called on in this run
    written,     \* the output paths os.Create succeeded on in this run, in order
    fs0,         \* fs when this run was entered
    status1,     \* the status tree the first run returned
    ff,          \* a call of findFiles on its own: arguments and result
    call         \* a call of a function of package parser or settings on its
                 \* own: arguments and result

vars == <<sets, now, hasCb, userData, fs, pc, setNr, fileNr, fileList, status, err,
          run, cbCount, cbStatus, cbUserData, cbSeen, parsed, written, fs0, status1, ff, call>>

NoPath == [dir |-> <<>>, name |-> <<>>]

\* FileStatus{InputFile: infile, Status: NotStartedYet}
NewFileStatus(infile) ==
    [InputFile |-> infile, OutputFile |-> NoPath, Status |-> NotStartedYet,
     Format |-> NilFormat]

\* what the callback has seen after being given the tree st
Observe(seen, st) ==
    [i \in 1..Len(st) |->
        [j \in 1..Len(st[i].Files) |->
            LET old == IF i <= Len(seen) /\ j <= Len(seen[i]) THEN seen[i][j] ELSE <<>>
                cur == st[i].Files[j].Status
            IN IF old # <<>> /\ old[Len(old)] = cur THEN old ELSE Append(old, cur)]]

\* Callback, were the callback invoked before the status is assigned
CallbackBeforeAssignment(st) ==
    IF hasCb
    THEN /\ cbCount' = cbCount + 1
         /\ cbStatus' = status
         /\ cbUserData' = userData
         /\ cbSeen' = Observe(cbSeen, status)
    ELSE UNCHANGED <<cbCount, cbStatus, cbUserData, cbSeen>>

\* if c != nil { c(status, userData) } with the tree st
Callback(st) ==
    IF hasCb
    THEN /\ cbCount' = cbCount + 1
         /\ cbStatus' = st
         /\ cbUserData' = userData
         /\ cbSeen' = Observe(cbSeen, st)
    ELSE UNCHANGED <<cbCount, cbStatus, cbUserData, cbSeen>>

NoCallback == UNCHANGED <<cbCount, cbStatus, cbUserData, cbSeen>>

\* return st, e
Return(st, e) ==
    /\ pc' = "returned"
    /\ status' = st
    /\ err' = e

\* Continue, were the file taken again instead of the next one
ContinueSameFile ==
    /\ pc' = "file"
    /\ UNCHANGED <<setNr, fileNr, fileList>>

\* the loop over fileList goes on with the next file, or the loop over the
\* sets with the next set
Continue ==
    IF fileNr < Len(fileList)
    THEN /\ pc' = "file"
         /\ fileNr' = fileNr + 1
         /\ UNCHANGED <<setNr, fileList>>
    ELSE /\ pc' = "set"
         /\ setNr' = setNr + 1
         /\ UNCHANGED <<fileNr, fileList>>

\* SetFile, were OutputFile left as it is
SetFileNoOutput(st, outfile, state, format) ==
    [st EXCEPT ![setNr].Files[fileNr] = [@ EXCEPT !.Status = state, !.Format = format]]

\* status[setNr].Files[fileNr] with OutputFile, Status and Format set
SetFile(st, outfile, state, format) ==
    [st EXCEPT ![setNr].Files[fileNr] =
        [@ EXCEPT !.OutputFile = outfile, !.Status = state, !.Format = format]]

\* the checks before the loop over the sets
Validate ==
    /\ pc = "enter"
    /\ UNCHANGED <<now, hasCb, userData, fs, setNr, fileNr, fileList, run,
                   parsed, written, fs0, status1, ff, call>>
    /\ NoCallback
    /\ IF Len(sets) = 0
       THEN /\ Return(<<>>, "nil")
            /\ UNCHANGED sets
       ELSE LET n == NormalizePaths(sets) IN
            /\ sets' = n.sets
            /\ IF n.err THEN Return(<<>>, "normalize")
               ELSE IF SetsInvalid(n.sets) THEN Return(<<>>, "invalid")
               ELSE /\ pc' = "set"
                    /\ UNCHANGED <<status, err>>

\* OutputDirError, were fileInfo.IsDir() not tested
OutputDirErrorNoIsDir(outputDir) ==
    IF DirKind(outputDir) = "none" THEN "outputdir_stat" ELSE "nil"

\* os.Stat(set.OutputDir) and fileInfo.IsDir(): the error returned, or "nil"
OutputDirError(outputDir) ==
    IF DirKind(outputDir) = "none" THEN "outputdir_stat"
    ELSE IF DirKind(outputDir) # "dir" THEN "outputdir_notdir"
    ELSE "nil"

\* one iteration of the loop over the sets, up to the loop over its files
BeginSet ==
    /\ pc = "set"
    /\ setNr <= Len(sets)
    /\ UNCHANGED <<sets, now, hasCb, userData, fs, run, parsed, written, fs0, status1, ff, call>>
    /\ LET set == sets[setNr]
           found == findFiles(fs, set.InputDir, set.FileGlobPattern,
                              getTimeFromMaxAgeDays(set.FileMaxAgeDays, now))
           appended == Append(status, [Name |-> set.Name, Files |-> <<>>])
           started == [appended EXCEPT ![setNr].Files =
                          [i \in 1..Len(found.files) |-> NewFileStatus(found.files[i])]]
       IN IF OutputDirError(set.OutputDir) # "nil"
          THEN /\ Return(status, OutputDirError(set.OutputDir))
               /\ NoCallback
               /\ UNCHANGED <<setNr, fileNr, fileList>>
          ELSE IF found.err
          THEN /\ Return(appended, "findfiles")
               /\ NoCallback
               /\ UNCHANGED <<setNr, fileNr, fileList>>
          ELSE /\ status' = started
               /\ Callback(started)
               /\ fileList' = found.files
               /\ err' = "nil"
               /\ IF Len(found.files) = 0
                  THEN /\ pc' = "set"
                       /\ setNr' = setNr + 1
                       /\ UNCHANGED fileNr
                  ELSE /\ pc' = "file"
                       /\ fileNr' = 1
                       /\ UNCHANGED setNr

\* OutputExists, were the test err != nil
OutputExistsInverted(files, outfile) == ~ Exists(files, outfile)

\* _, err := os.Stat(outfile); err == nil
OutputExists(files, outfile) == Exists(files, outfile)

\* the head of one iteration of the loop over the files: the output path and
\* the check whether the output file exists
ReachFile ==
    /\ pc = "file"
    /\ UNCHANGED <<sets, now, hasCb, userData, fs, err, run, parsed, written, fs0, status1,
                   ff, call>>
    /\ LET infile == fileList[fileNr]
           outfile == OutputPath(sets[setNr].OutputDir, infile)
       IN IF OutputExists(fs, outfile)
          THEN LET st == SetFile(status, outfile, Skipped, NilFormat) IN
               /\ status' = st
               /\ Callback(st)
               /\ Continue
          ELSE LET st == SetFile(status, outfile, ConversionInProgress, NilFormat) IN
               /\ status' = st
               /\ Callback(st)
               /\ pc' = "convert"
               /\ UNCHANGED <<setNr, fileNr, fileList>>

\* the parser types GetGuessedParser can return for a file of this content
\* ("nil": none, "panic": a ParseFile panicked), over the orders of GetSourceFormats
GuessResults == [content \in Contents |-> {GetGuessedParser(order, content) : order \in FormatOrders}]

\* what lines 815-833 can leave in fileParser for a set of this format:
\* a parser type that holds the parsed entries, "nil" (status Error) or "panic"
ParserChoices(format, content) ==
    IF format = NilFormat THEN GuessResults[content]
    ELSE LET r == ParseFile(GetParser(format), content) IN
         IF r = "ok" THEN {GetParser(format)}
         ELSE IF r = "error" THEN {"nil"}
         ELSE {"panic"}

ParserResults ==
    {"nil", "panic", "moneywalletParser", "barclaycardParser", "volksbankParser",
     "comdirectParser", "dkbParser"}

\* the rest of the iteration: the parser is chosen and the file parsed
\* (fileParser is the result), then converted and written (outcome is what
\* the write does)
Convert(fileParser, outcome) ==
    /\ pc = "convert"
    /\ UNCHANGED <<sets, now, hasCb, userData, err, run, fs0, status1, ff, call>>
    /\ LET infile == fileList[fileNr]
           outfile == status[setNr].Files[fileNr].OutputFile
       IN /\ fileParser \in ParserChoices(sets[setNr].Format, fs[infile].content)
          /\ parsed' = parsed \cup {infile}
          /\ IF fileParser = "panic"
             THEN /\ pc' = "panicked"
                  /\ NoCallback
                  /\ UNCHANGED <<fs, status, written, setNr, fileNr, fileList>>
             ELSE IF fileParser = "nil"
             THEN LET st == SetFile(status, outfile, ConversionError, NilFormat) IN
                  /\ status' = st
                  /\ Callback(st)
                  /\ Continue
                  /\ UNCHANGED <<fs, written>>
             ELSE LET state == IF outcome = "ok" THEN ConversionSuccess ELSE ConversionError
                      st == SetFile(status, outfile, state, GetFormat(fileParser))
                  IN /\ fs' = writeHomeBankRecords(fs, fileParser, outfile, outcome, now)
                     /\ written' = IF outcome = "createfail" THEN written
                                   ELSE Append(written, outfile)
                     /\ status' = st
                     /\ Callback(st)
                     /\ Continue

\* the return after the loop over the sets
ReturnStatus ==
    /\ pc = "set"
    /\ setNr > Len(sets)
    /\ pc' = "returned"
    /\ UNCHANGED <<sets, now, hasCb, userData, fs, setNr, fileNr, fileList, status, err,
                   run, cbCount, cbStatus, cbUserData, cbSeen, parsed, written, fs0,
                   status1, ff, call>>

\* the caller calls BatchConvert again with the settings and the directories
\* the first call left
CallAgain ==
    /\ pc = "returned"
    /\ run = 1
    /\ run' = 2
    /\ pc' = "enter"
    /\ setNr' = 1
    /\ fileNr' = 1
    /\ fileList' = <<>>
    /\ status' = <<>>
    /\ err' = "nil"
    /\ cbCount' = 0
    /\ cbStatus' = <<>>
    /\ cbUserData' = "none"
    /\ cbSeen' = <<>>
    /\ parsed' = {}
    /\ written' = <<>>
    /\ fs0' = fs
    /\ status1' = status
    /\ UNCHANGED <<sets, now, hasCb, userData, fs, ff, call>>

(***************************************************************************)
(* Initial states: the settings and the directories BatchConvert is called *)
(* with.                                                                   *)
(***************************************************************************)
StarCsv == <<"*", ".", "c", "s", "v">>

\* the name of the set at position i of a settings value
SetName(i) == CASE i = 1 -> "s1" [] i = 2 -> "s2" [] i = 3 -> "s3" [] OTHER -> "s4"

BaseSet ==
    [Name |-> "byPosition", InputDir |-> DirA, OutputDir |-> DirC, Format |-> NilFormat,
     FileGlobPattern |-> <<>>, FileMaxAgeDays |-> 0]

\* sets that pass CheckValidity and whose directories exist
PlainSets ==
    {[BaseSet EXCEPT !.InputDir = d[1], !.OutputDir = d[2], !.Format = f,
                     !.FileGlobPattern = g[1], !.FileMaxAgeDays = g[2]] :
        d \in {<<DirA, DirB>>, <<DirA, DirC>>, <<DirB, DirC>>},
        f \in {NilFormat, Volksbank},
        g \in {<<<<>>, 0>>, <<StarCsv, 1>>}}

\* sets that pass CheckValidity and meet a special directory: an output
\* directory that is missing or a regular file, an input directory that is
\* missing or whose name is a malformed glob pattern, a path that is not clean
OddSets ==
    {[BaseSet EXCEPT !.OutputDir = DirM],
     [BaseSet EXCEPT !.OutputDir = DirF],
     [BaseSet EXCEPT !.InputDir = DirM],
     [BaseSet EXCEPT !.InputDir = DirMeta],
     [BaseSet EXCEPT !.InputDir = <<"A", "/">>]}

\* the sets a settings value of more than two sets goes on with
TailSets ==
    {[BaseSet EXCEPT !.InputDir = DirB, !.FileGlobPattern = <<"?", ".", "c", "s", "v">>],
     [BaseSet EXCEPT !.OutputDir = DirB, !.Format = Volksbank,
                     !.FileGlobPattern = <<"b", "*">>]}

\* sets that NormalizePaths or CheckValidity rejects
BadSets ==
    {[BaseSet EXCEPT !.Name = ""],
     [BaseSet EXCEPT !.Name = "asFirst"],
     [BaseSet EXCEPT !.InputDir = <<>>],
     [BaseSet EXCEPT !.OutputDir = <<>>],
     [BaseSet EXCEPT !.OutputDir = DirA],
     [BaseSet EXCEPT !.InputDir = <<"C", "/">>],
     [BaseSet EXCEPT !.FileMaxAgeDays = -1],
     [BaseSet EXCEPT !.FileGlobPattern = <<"[">>],
     [BaseSet EXCEPT !.InputDir = <<"~", "x">>]}

\* the set at position i: its name is SetName(i), or the name of the first set
Named(set, i) ==
    IF set.Name = "byPosition" THEN [set EXCEPT !.Name = SetName(i)]
    ELSE IF set.Name = "asFirst" THEN [set EXCEPT !.Name = SetName(1)]
    ELSE set

\* settings of up to MaxSets sets: the first two are plain sets, but for at
\* most one from Special, the later ones are from TailSets
SettingsWith(Special) ==
    {[i \in 1..Len(q) |-> Named(q[i], i)] :
        q \in {q \in UNION {[1..n -> PlainSets \cup Special \cup TailSets] : n \in 0..MaxSets} :
                 /\ Cardinality({i \in DOMAIN q : q[i] \in Special}) <= 1
                 /\ \A i \in DOMAIN q : i > 2 <=> q[i] \in TailSets}}

\* settings with a set NormalizePaths or CheckValidity rejects
BadSettings == SettingsWith(BadSets) \ SettingsWith({})

InputFile(content, mtime) == [content |-> content, mtime |-> mtime]

\* what a.csv, a.xlsx and b of the directory DirA can be
OptsACsv ==
    {NoFile} \cup {InputFile("volksbank", t) : t \in 1..MaxTime}
             \cup {InputFile(c, MaxTime) : c \in {"comdirect_dkb", "empty"}}
OptsAXlsx == {NoFile} \cup {InputFile(c, MaxTime) : c \in {"barclaycard", "barclaycard_short"}}
OptsB == {NoFile, InputFile("volksbank", MaxTime), InputFile("empty", MaxTime)}
\* what a.csv of the directories DirB and DirC can be
OptsOld == {NoFile, InputFile("old", MaxTime)}

\* the file system with these files
BuildFs(aCsv, aXlsx, b, oldB, oldC) ==
    [p \in AllPaths |->
        IF p.dir = DirA /\ p.name = NameACsv THEN aCsv
        ELSE IF p.dir = DirA /\ p.name = NameAXlsx THEN aXlsx
        ELSE IF p.dir = DirA /\ p.name = NameB THEN b
        ELSE IF p.dir = DirB /\ p.name = NameACsv THEN oldB
        ELSE IF p.dir = DirC /\ p.name = NameACsv THEN oldC
        ELSE NoFile]

\* at most one directory holds an old a.csv
FileSystems ==
    {BuildFs(aCsv, aXlsx, b, old[1], old[2]) :
        aCsv \in OptsACsv, aXlsx \in OptsAXlsx, b \in OptsB,
        old \in {o \in OptsOld \X OptsOld : NoFile \in {o[1], o[2]}}}

\* a few file systems, for the settings that are rejected before any file is read
FewFileSystems ==
    {BuildFs(InputFile("volksbank", MaxTime), NoFile, b, NoFile, NoFile) :
        b \in {NoFile, InputFile("empty", MaxTime)}}

\* no call of findFiles on its own
NoFind == [state |-> "none"]

\* no call of another function on its own
NoCall == [state |-> "none"]

InitCall ==
    /\ now = MaxTime + 1
    /\ userData = 42
    /\ pc = "enter"
    /\ setNr = 1
    /\ fileNr = 1
    /\ fileList = <<>>
    /\ status = <<>>
    /\ err = "nil"
    /\ run = 1
    /\ cbCount = 0
    /\ cbStatus = <<>>
    /\ cbUserData = "none"
    /\ cbSeen = <<>>
    /\ parsed = {}
    /\ written = <<>>
    /\ fs0 = fs
    /\ status1 = <<>>

\* every file system with a callback; a few of them without a callback, and
\* for the settings that are rejected
Init ==
    /\ \/ hasCb = TRUE /\ sets \in SettingsWith(OddSets) /\ fs \in FileSystems
       \/ hasCb = FALSE /\ sets \in SettingsWith(OddSets) /\ fs \in FewFileSystems
       \/ hasCb \in BOOLEAN /\ sets \in BadSettings /\ fs \in FewFileSystems
    /\ InitCall
    /\ ff = NoFind
    /\ call = NoCall

Next ==
    \/ Validate
    \/ BeginSet
    \/ ReachFile
    \/ \E fileParser \in ParserResults, outcome \in WriteOutcomes : Convert(fileParser, outcome)
    \/ ReturnStatus

Spec == Init /\ [][Next]_vars

(***************************************************************************)
(* Vocabulary of the properties.                                           *)
(***************************************************************************)
\* the files of a status tree, as pairs of set number and file number
FileIds(st) == UNION {{<<i, j>> : j \in 1..Len(st[i].Files)} : i \in 1..Len(st)}

StatusOf(st, id) == st[id[1]].Files[id[2]].Status

TerminalStatuses == {Skipped, ConversionError, ConversionSuccess}

\* the changes of status the documentation allows
LegalTransitions ==
    {<<NotStartedYet, Skipped>>, <<NotStartedYet, ConversionInProgress>>,
     <<ConversionInProgress, ConversionError>>, <<ConversionInProgress, ConversionSuccess>>}

\* a file is stored at the path p
Present(files, p) == p \in DOMAIN files /\ files[p].content # "none"

\* the files whose status differs between the trees a and b of the same shape
ChangedFiles(a, b) == {id \in FileIds(a) \cap FileIds(b) : StatusOf(a, id) # StatusOf(b, id)}

\* C1: within a run, a file enters the tree as NotStarted, every change of its
\* status is NotStarted -> Skipped, NotStarted -> InProgress, InProgress ->
\* Error or InProgress -> Success, and no file leaves the tree; so Skipped,
\* Error and Success are never left
C1_StatusTransitions ==
    [][run' = run =>
         /\ FileIds(status) \subseteq FileIds(status')
         /\ \A id \in FileIds(status') :
               IF id \in FileIds(status)
               THEN \/ StatusOf(status', id) = StatusOf(status, id)
                    \/ <<StatusOf(status, id), StatusOf(status', id)>> \in LegalTransitions
               ELSE StatusOf(status', id) = NotStartedYet]_vars

\* C1 witness: a run has returned a tree with a Skipped, an Error and a
\* Success file
C1_Witness ==
    /\ pc = "returned"
    /\ \A t \in TerminalStatuses : \E id \in FileIds(status) : StatusOf(status, id) = t

\* the statuses a callback can have seen of one file, in order and without
\* repetition, and those of a file that has reached its final status
SeenOrders ==
    {<<NotStartedYet>>, <<NotStartedYet, Skipped>>, <<NotStartedYet, ConversionInProgress>>,
     <<NotStartedYet, ConversionInProgress, ConversionError>>,
     <<NotStartedYet, ConversionInProgress, ConversionSuccess>>}

SeenComplete == {o \in SeenOrders : o[Len(o)] \in TerminalStatuses}

\* the trees a and b have the same sets with the same number of files
SameShape(a, b) == Len(a) = Len(b) /\ \A i \in 1..Len(a) : Len(a[i].Files) = Len(b[i].Files)

\* C2: with a callback, the callback is invoked exactly once when the files of
\* a set have been initialised to NotStarted and once after every change of a
\* file's status, with the current tree and the caller's userData; a step
\* changes at most one file; two consecutive callbacks for the same set differ
\* in the status of exactly one file; so the callback sees of every file
\* NotStarted, then Skipped, or InProgress and then Error or Success, and for
\* a run that returns nil it has seen every file up to its final status
C2_Callbacks ==
    /\ [](hasCb => \A i \in 1..Len(cbSeen) : \A j \in 1..Len(cbSeen[i]) :
                      cbSeen[i][j] \in SeenOrders)
    /\ [](hasCb /\ pc = "returned" /\ err = "nil" /\ Len(sets) > 0 =>
             /\ cbStatus = status
             /\ Len(cbSeen) = Len(status)
             /\ \A i \in 1..Len(status) :
                   /\ Len(cbSeen[i]) = Len(status[i].Files)
                   /\ \A j \in 1..Len(cbSeen[i]) :
                         /\ cbSeen[i][j] \in SeenComplete
                         /\ cbSeen[i][j][Len(cbSeen[i][j])] = status[i].Files[j].Status)
    /\ [][hasCb /\ run' = run =>
            LET changed == ChangedFiles(status, status')
                initialised == Len(status') = Len(status) + 1 /\ pc' # "returned"
            IN /\ Cardinality(changed) <= 1
               /\ userData' = userData
               /\ IF changed # {} \/ initialised
                  THEN /\ cbCount' = cbCount + 1
                       /\ cbStatus' = status'
                       /\ cbUserData' = userData
                       /\ IF initialised
                          THEN /\ changed = {}
                               /\ ChangedFiles(cbStatus, cbStatus') = {}
                               /\ \A j \in 1..Len(status'[Len(status')].Files) :
                                     StatusOf(status', <<Len(status'), j>>) = NotStartedYet
                          ELSE /\ SameShape(cbStatus, cbStatus')
                               /\ Cardinality(ChangedFiles(cbStatus, cbStatus')) = 1
                  ELSE UNCHANGED <<cbCount, cbStatus, cbUserData, cbSeen>>]_vars

\* C2 witness: a run with a callback has returned, and the callback has seen
\* a file go NotStarted, Skipped and a file go NotStarted, InProgress, Success
C2_Witness ==
    /\ hasCb /\ pc = "returned" /\ Len(cbSeen) = 2
    /\ \E j \in 1..Len(cbSeen[1]) : cbSeen[1][j] = <<NotStartedYet, Skipped>>
    /\ \E j \in 1..Len(cbSeen[2]) :
          cbSeen[2][j] = <<NotStartedYet, ConversionInProgress, ConversionSuccess>>

\* C3: a file whose output path holds a file when the loop reaches it goes
\* from NotStarted to Skipped in that step, which calls no parser and writes
\* nothing; a Skipped file has no Format, and the file at its output path is
\* never modified; only the file in progress is ever parsed
C3_SkipExisting ==
    /\ [](pc = "convert" => StatusOf(status, <<setNr, fileNr>>) = ConversionInProgress)
    /\ [][(pc = "file" /\ Present(fs, OutputPath(sets[setNr].OutputDir, fileList[fileNr])))
              => /\ StatusOf(status, <<setNr, fileNr>>) = NotStartedYet
                 /\ StatusOf(status', <<setNr, fileNr>>) = Skipped
                 /\ parsed' = parsed /\ fs' = fs /\ written' = written]_vars
    /\ [][(parsed' # parsed /\ run' = run)
              => /\ pc = "convert"
                 /\ parsed' = parsed \cup {status[setNr].Files[fileNr].InputFile}]_vars
    /\ [][\A id \in FileIds(status') :
              (run' = run /\ StatusOf(status', id) = Skipped)
                  => LET f == status'[id[1]].Files[id[2]] IN
                     /\ f.Format = NilFormat
                     /\ Present(fs, f.OutputFile)
                     /\ fs'[f.OutputFile] = fs[f.OutputFile]]_vars

\* C3 witness: a run has returned a Skipped file whose output path holds the
\* file that was there before the run
C3_Witness ==
    /\ pc = "returned"
    /\ \E id \in FileIds(status) :
          /\ StatusOf(status, id) = Skipped
          /\ fs[status[id[1]].Files[id[2]].OutputFile].content = "old"

\* C4: the step that chooses the parser, parses, converts and writes one file
\* ends with that file in Error or Success and every other file as it was,
\* BatchConvert goes on with the next file or set, and the error it will
\* return stays nil
C4_PartialFailure ==
    [][(pc = "convert" /\ run' = run)
          => /\ pc' \in {"file", "set"}
             /\ ChangedFiles(status, status') = {<<setNr, fileNr>>}
             /\ StatusOf(status', <<setNr, fileNr>>) \in {ConversionError, ConversionSuccess}
             /\ err' = "nil"]_vars

\* settings the documentation calls invalid
InvalidSettings(s) ==
    \/ \E i \in 1..Len(s) :
          \/ s[i].Name = ""
          \/ s[i].InputDir = <<>>
          \/ s[i].OutputDir = <<>>
          \/ s[i].InputDir = s[i].OutputDir
          \/ s[i].FileMaxAgeDays < 0
          \/ IsBadPattern(s[i].FileGlobPattern)
    \/ \E i, j \in 1..Len(s) : i # j /\ s[i].Name = s[j].Name

\* C5: with invalid settings BatchConvert goes from its entry to its return
\* only: no set is entered, no file is discovered, parsed or written, no
\* callback is invoked, and it returns a nil status and a non-nil error
C5_InvalidSettings ==
    InvalidSettings(sets) =>
        /\ pc \in {"enter", "returned"}
        /\ status = <<>> /\ fileList = <<>>
        /\ cbCount = 0
        /\ parsed = {} /\ written = <<>> /\ fs = fs0
        /\ pc = "returned" => err # "nil"

\* C5 witness: BatchConvert has returned for settings whose first set is
\* valid and whose second set has an invalid glob pattern
C5_Witness ==
    /\ pc = "returned" /\ hasCb /\ Len(sets) = 2
    /\ ~ InvalidSettings(<<sets[1]>>)
    /\ IsBadPattern(sets[2].FileGlobPattern)

OutputDirErrors == {"outputdir_stat", "outputdir_notdir"}

\* the first set whose output directory is no directory
FirstBadOutputDir(s) ==
    CHOOSE k \in 1..Len(s) :
        /\ s[k].OutputDir \notin RealDirs
        /\ \A i \in 1..(k - 1) : s[i].OutputDir \in RealDirs

\* C6 as stated: when the output directory of a set is missing or no
\* directory, BatchConvert returns a non-nil error and has parsed and written
\* no file of any set
C6_NothingOfAnySet ==
    (pc = "returned" /\ \E i \in 1..Len(sets) : sets[i].OutputDir \notin RealDirs) =>
        /\ err # "nil"
        /\ parsed = {} /\ written = <<>>

\* C6: when the output directory of a set is missing or no directory,
\* BatchConvert returns a non-nil error; when the error is that of the output
\* directory, the status lists exactly the sets before that set, all their
\* files are Skipped, Error or Success, and every file parsed or written is a
\* file of these sets
C6_SetsBeforeAreDone ==
    (pc = "returned" /\ \E i \in 1..Len(sets) : sets[i].OutputDir \notin RealDirs) =>
        /\ err # "nil"
        /\ err \in OutputDirErrors =>
              /\ Len(status) = FirstBadOutputDir(sets) - 1
              /\ \A id \in FileIds(status) : StatusOf(status, id) \in TerminalStatuses
              /\ parsed \subseteq {status[id[1]].Files[id[2]].InputFile : id \in FileIds(status)}
              /\ \A k \in 1..Len(written) :
                    written[k] \in {status[id[1]].Files[id[2]].OutputFile : id \in FileIds(status)}

\* C6 witness: BatchConvert has returned the error of the second set's output
\* directory after converting a file of the first set
C6_Witness ==
    /\ pc = "returned" /\ err \in OutputDirErrors
    /\ Len(status) = 1
    /\ \E id \in FileIds(status) : StatusOf(status, id) = ConversionSuccess
    /\ written # <<>>

\* C8: a file with status Success has a Format that names a source format:
\* the format of its set if the set names one, else a format whose parser
\* accepts the input file; its output path holds a file, the one the parser
\* of that format writes
C8_SuccessHasFormat ==
    \A id \in FileIds(status) :
        StatusOf(status, id) = ConversionSuccess =>
            LET f == status[id[1]].Files[id[2]]
                set == sets[id[1]]
            IN /\ f.Format \in SourceFormats
               /\ set.Format # NilFormat => f.Format = set.Format
               /\ ParseFile(GetParser(f.Format), fs[f.InputFile].content) = "ok"
               /\ Present(fs, f.OutputFile)
               /\ fs[f.OutputFile].content = HomebankOf(GetParser(f.Format))

\* C8 witness: BatchConvert has returned a Success file of a set that names
\* a format and a Success file whose format was autodetected as DKB
C8_Witness ==
    /\ pc = "returned"
    /\ \E id \in FileIds(status) :
          /\ StatusOf(status, id) = ConversionSuccess
          /\ sets[id[1]].Format = Volksbank
    /\ \E id \in FileIds(status) :
          /\ StatusOf(status, id) = ConversionSuccess
          /\ sets[id[1]].Format = NilFormat
          /\ status[id[1]].Files[id[2]].Format = DKB

\* C9: when BatchConvert returns a nil error, the status has one entry per
\* set, in the order and with the names of the sets, every file is Skipped,
\* Error or Success, and GetStats of every set reports left = 0 and done =
\* the number of its files
C9_AllDoneOnNil ==
    (pc = "returned" /\ err = "nil" /\ Len(sets) > 0) =>
        /\ Len(status) = Len(sets)
        /\ \A i \in 1..Len(status) :
              /\ status[i].Name = sets[i].Name
              /\ \A j \in 1..Len(status[i].Files) :
                    status[i].Files[j].Status \in TerminalStatuses
              /\ GetStats(status[i]).left = 0
              /\ GetStats(status[i]).done = Len(status[i].Files)

\* C9 witness: BatchConvert has returned nil for two sets, the first with a
\* Skipped file and the second with more than one file
C9_Witness ==
    /\ pc = "returned" /\ err = "nil" /\ Len(status) = 2
    /\ \E j \in 1..Len(status[1].Files) : status[1].Files[j].Status = Skipped
    /\ Len(status[2].Files) > 1

(***************************************************************************)
(* BatchConvert called twice: the second call gets the settings and the    *)
(* directories as the first call left them.                                *)
(***************************************************************************)
InitTwice ==
    /\ hasCb = TRUE
    /\ sets \in {q \in SettingsWith({[BaseSet EXCEPT !.OutputDir = DirM]}) :
                    \A i \in 1..Len(q) : q[i].FileMaxAgeDays = 0}
    /\ fs \in FileSystems
    /\ InitCall
    /\ ff = NoFind
    /\ call = NoCall

NextTwice ==
    \/ Next
    \/ CallAgain

SpecTwice == InitTwice /\ [][NextTwice]_vars

\* the directories exist, and no input directory is an output directory
SeparateDirs(s) ==
    /\ \A i \in 1..Len(s) : s[i].InputDir \in RealDirs /\ s[i].OutputDir \in RealDirs
    /\ \A i, j \in 1..Len(s) : s[i].InputDir # s[j].OutputDir

\* the trees a and b list the same input files
SameFiles(a, b) ==
    /\ SameShape(a, b)
    /\ \A id \in FileIds(a) :
          a[id[1]].Files[id[2]].InputFile = b[id[1]].Files[id[2]].InputFile

FindDirs == {<<>>, DirA, DirB, DirF, DirM, DirMeta, DirAny}

FindPatterns ==
    {<<>>, <<"*">>, StarCsv, <<"a", "*">>, <<"?">>, NameB, NameACsv, <<"[">>, <<"[", "a">>}

FindTimes == 0..(MaxTime + 1)

\* the files of the calls: three in DirA of any age, one in DirB
FindFileSystems ==
    {BuildFs(aCsv, aXlsx, b, oldB, NoFile) :
        aCsv \in {NoFile} \cup {InputFile("volksbank", t) : t \in 1..MaxTime},
        aXlsx \in {NoFile, InputFile("barclaycard", 1)},
        b \in {NoFile, InputFile("volksbank", MaxTime)},
        oldB \in OptsOld}

InitFind ==
    /\ sets = <<>>
    /\ hasCb = FALSE
    /\ fs \in FindFileSystems
    /\ InitCall
    /\ call = NoCall
    /\ ff \in {[state |-> "call", inputDir |-> d, fileGlobPattern |-> g, minTime |-> t] :
                  d \in FindDirs, g \in FindPatterns, t \in FindTimes}

\* findFiles(inputDir, fileGlobPattern, minTime) returns
CallFindFiles ==
    /\ ff.state = "call"
    /\ LET r == findFiles(fs, ff.inputDir, ff.fileGlobPattern, ff.minTime) IN
       ff' = [state |-> "done", inputDir |-> ff.inputDir,
              fileGlobPattern |-> ff.fileGlobPattern, minTime |-> ff.minTime,
              err |-> r.err, files |-> r.files]
    /\ UNCHANGED <<sets, now, hasCb, userData, fs, pc, setNr, fileNr, fileList, status, err,
                   run, cbCount, cbStatus, cbUserData, cbSeen, parsed, written, fs0,
                   status1, call>>

NextFind == CallFindFiles

SpecFind == InitFind /\ [][NextFind]_vars

\* the name n matches the glob pattern g; an empty pattern matches every name
NameMatches(g, n) == g = <<>> \/ MatchFrom(g, n)

\* the entries of the directory d that findFiles is documented to return
Expected(files, d, g, minTime) ==
    {p \in AllPaths :
        /\ p.dir = d /\ Present(files, p)
        /\ NameMatches(g, p.name)
        /\ minTime = ZeroTime \/ files[p].mtime >= minTime}

\* the sequence q is in strictly ascending order: sorted, without duplicates
Ascending(q) == \A i \in 1..(Len(q) - 1) : StrLess(PathStr(q[i]), PathStr(q[i + 1]))

\* C10: findFiles returns, for a well-formed pattern, no error and in
\* ascending order without duplicates exactly the entries of inputDir whose
\* name matches the pattern (every entry for an empty pattern) and whose
\* modification time is at or after minTime (every match for the zero
\* minTime), so nothing for an empty or missing inputDir; and an error for a
\* malformed pattern in a directory that exists
C10_FindFiles ==
    ff.state = "done" =>
        IF IsBadPattern(ff.fileGlobPattern)
        THEN ff.inputDir \in RealDirs => ff.err
        ELSE /\ ~ ff.err
             /\ Ascending(ff.files)
             /\ {ff.files[i] : i \in 1..Len(ff.files)}
                   = Expected(fs, ff.inputDir, ff.fileGlobPattern, ff.minTime)

(***************************************************************************)
(* Functions of the packages settings and parser called on their own.      *)
(* The variables of BatchConvert stay as NoBatch leaves them.              *)
(***************************************************************************)
NoBatch ==
    /\ sets = <<>>
    /\ hasCb = FALSE
    /\ fs = BuildFs(NoFile, NoFile, NoFile, NoFile, NoFile)
    /\ InitCall
    /\ ff = NoFind

\* the variables a call of such a function leaves alone
batchVars ==
    <<sets, now, hasCb, userData, fs, pc, setNr, fileNr, fileList, status, err,
      run, cbCount, cbStatus, cbUserData, cbSeen, parsed, written, fs0, status1, ff>>

(***************************************************************************)
(* BatchConvertSets.CheckValidity called on its own.                       *)
(***************************************************************************)
\* the sets of the lists CheckValidity is called with
ValiditySets ==
    BadSets \cup
    {BaseSet,
     [BaseSet EXCEPT !.InputDir = DirB],
     [BaseSet EXCEPT !.FileGlobPattern = StarCsv],
     [BaseSet EXCEPT !.FileGlobPattern = <<"b", "*">>],
     [BaseSet EXCEPT !.InputDir = <<"A", "b">>, !.FileGlobPattern = <<"*">>]}

InitValidity ==
    /\ NoBatch
    /\ call \in {[state |-> "call", op |-> "CheckValidity",
                   sets |-> [i \in 1..Len(q) |-> Named(q[i], i)]] :
                     q \in UNION {[1..n -> ValiditySets] : n \in 0..MaxSets}}

\* s.CheckValidity() returns
CallCheckValidity ==
    /\ call.state = "call"
    /\ call.op = "CheckValidity"
    /\ call' = [state |-> "done", op |-> call.op, sets |-> call.sets,
                err |-> SetsInvalid(call.sets)]
    /\ UNCHANGED batchVars

NextValidity == CallCheckValidity

SpecValidity == InitValidity /\ [][NextValidity]_vars

\* two sets of s have the same InputDir and the same FileGlobPattern
SameInputAndPattern(s) ==
    \E i, j \in 1..Len(s) :
        /\ i # j
        /\ s[i].InputDir = s[j].InputDir
        /\ s[i].FileGlobPattern = s[j].FileGlobPattern

\* C11: CheckValidity returns an error exactly when a set has an empty name,
\* an empty input or output directory, equal input and output directory, a
\* negative max age or a malformed glob pattern, or two sets have the same
\* name, or two sets have the same InputDir and the same FileGlobPattern
C11_CheckValidity ==
    (call.state = "done" /\ call.op = "CheckValidity") =>
        (call.err <=> (InvalidSettings(call.sets) \/ SameInputAndPattern(call.sets)))

(***************************************************************************)
(* SourceFormat and its text form: String, UnmarshalText, GetParser called *)
(* on their own.  A SourceFormat is an int; the text form is a string,     *)
(* here a sequence of characters.                                          *)
(***************************************************************************)
\* the map sourceFormats: the textual representation of each key
sourceFormats ==
    [f \in SourceFormats |->
        CASE f = MoneyWallet -> <<"M", "o", "n", "e", "y", "W", "a", "l", "l", "e", "t">>
          [] f = Barclaycard -> <<"B", "a", "r", "c", "l", "a", "y", "c", "a", "r", "d">>
          [] f = Volksbank -> <<"V", "o", "l", "k", "s", "b", "a", "n", "k">>
          [] f = Comdirect -> <<"C", "o", "m", "d", "i", "r", "e", "c", "t">>
          [] f = DKB -> <<"D", "K", "B">>]

UnknownFormat == <<"u", "n", "k", "n", "o", "w", "n", " ", "f", "o", "r", "m", "a", "t">>

\* SourceFormat values that are no key of sourceFormats
OtherFormats == {"SourceFormat(5)", "SourceFormat(-1)"}

FormatValues == SourceFormats \cup OtherFormats

\* s.String()
String(s) ==
    IF \E key \in DOMAIN sourceFormats : key = s
      THEN sourceFormats[CHOOSE key \in DOMAIN sourceFormats : key = s]
      ELSE UnknownFormat

\* UnmarshalText where a text without a match sets the target to the zero value
UnmarshalTextCoerced(s, text) ==
    LET keys == {key \in DOMAIN sourceFormats : sourceFormats[key] = text}
    IN  IF keys = {} THEN {[s |-> MoneyWallet, err |-> TRUE]}
        ELSE {[s |-> key, err |-> FALSE] : key \in keys}

\* s.UnmarshalText(text): the values of *s and of the error it can return with;
\* the map is ranged over in any order and the first match returns
UnmarshalText(s, text) ==
    LET keys == {key \in DOMAIN sourceFormats : sourceFormats[key] = text}
    IN  IF keys = {} THEN {[s |-> s, err |-> TRUE]}
        ELSE {[s |-> key, err |-> FALSE] : key \in keys}

\* the texts UnmarshalText is called with
FormatTexts ==
    {sourceFormats[f] : f \in SourceFormats} \cup
    {UnknownFormat, <<>>, <<"d", "k", "b">>, <<"D", "K", "B", " ">>, <<"M", "o", "n", "e", "y">>, <<"n", "o", " ", "v", "a", "l", "i", "d", " ", "f", "o", "r", "m", "a", "t">>}

InitFormat ==
    /\ NoBatch
    /\ call \in {[state |-> "call", s |-> s, target0 |-> t, target |-> t, text |-> text,
                  err |-> FALSE, p |-> "none"] :
                    s \in FormatValues, t \in FormatValues, text \in FormatTexts}

\* text := s.String()
CallString ==
    /\ call.state = "call"
    /\ call' = [call EXCEPT !.state = "String", !.text = String(call.s)]
    /\ UNCHANGED batchVars

\* err := target.UnmarshalText(text), of a given text or of the text String returned
CallUnmarshalText ==
    /\ call.state \in {"call", "String"}
    /\ \E r \in UnmarshalText(call.target, call.text) :
          call' = [call EXCEPT !.state = IF call.state = "call" THEN "UnmarshalText"
                                          ELSE "RoundTrip",
                               !.target = r.s, !.err = r.err]
    /\ UNCHANGED batchVars

\* p := GetParser(s)
CallGetParser ==
    /\ call.state = "call"
    /\ call' = [call EXCEPT !.state = "GetParser", !.p = GetParser(call.s)]
    /\ UNCHANGED batchVars

NextFormat ==
    \/ CallString
    \/ CallUnmarshalText
    \/ CallGetParser

SpecFormat == InitFormat /\ [][NextFormat]_vars

\* C12: for each of the five tags f, UnmarshalText(String(f)) succeeds and
\* yields f; the five names are pairwise distinct and none is "unknown format";
\* UnmarshalText of a text that is none of the five names returns an error and
\* leaves the target unchanged; String of a value that is none of the five tags
\* is "unknown format" and GetParser of such a value is nil
C12_RoundTrip ==
    /\ (call.state = "RoundTrip" /\ call.s \in SourceFormats) =>
          (~call.err /\ call.target = call.s)
    /\ \A f, g \in SourceFormats : f # g => String(f) # String(g)
    /\ (call.state = "String" /\ call.s \in SourceFormats) => call.text # UnknownFormat
    /\ (call.state = "UnmarshalText" /\ \A f \in SourceFormats : call.text # String(f)) =>
          (call.err /\ call.target = call.target0)
    /\ (call.state = "String" /\ call.s \notin SourceFormats) => call.text = UnknownFormat
    /\ (call.state = "GetParser" /\ call.s \notin SourceFormats) => call.p = "nil"

\* DKB went through its text form into a target that held another value
C12_Witness ==
    /\ call.state = "RoundTrip"
    /\ call.s = DKB
    /\ call.target0 = "SourceFormat(5)"
    /\ call.target = DKB
    /\ call.text = <<"D", "K", "B">>

(***************************************************************************)
(* Text of input files: the functions of strings, strconv and time the     *)
(* parsers call, on strings as sequences of characters.                    *)
(***************************************************************************)
Digits == <<"0", "1", "2", "3", "4", "5", "6", "7", "8", "9">>

IsDigit(c) == \E i \in 1..10 : Digits[i] = c

DigitVal(c) == (CHOOSE i \in 1..10 : Digits[i] = c) - 1

\* the number a string of digits denotes
RECURSIVE Atoi(_)
Atoi(s) ==
    IF s = <<>> THEN 0
    ELSE 10 * Atoi(SubSeq(s, 1, Len(s) - 1)) + DigitVal(s[Len(s)])

AllDigits(s) == \A i \in 1..Len(s) : IsDigit(s[i])

\* the positions of the character c in s, ascending
Positions(s, c) ==
    LET at == {i \in 1..Len(s) : s[i] = c}
    IN  [k \in 1..Cardinality(at) |->
            CHOOSE i \in at : Cardinality({j \in at : j < i}) = k - 1]

\* strings.Split(s, sep) for a separator of one character
Split(s, sep) ==
    LET cut == <<0>> \o Positions(s, sep) \o <<Len(s) + 1>>
    IN  [k \in 1..Len(cut) - 1 |-> SubSeq(s, cut[k] + 1, cut[k + 1] - 1)]

\* strings.Join(fields, sep)
RECURSIVE Join(_, _)
Join(fields, sep) ==
    IF fields = <<>> THEN <<>>
    ELSE IF Len(fields) = 1 THEN fields[1]
    ELSE fields[1] \o <<sep>> \o Join(Tail(fields), sep)

\* strings.Replace(s, old, new, -1) and strings.ReplaceAll(s, old, new) for
\* old of one character and new a string
RECURSIVE ReplaceAll(_, _, _)
ReplaceAll(s, old, new) ==
    IF s = <<>> THEN <<>>
    ELSE (IF s[1] = old THEN new ELSE <<s[1]>>) \o ReplaceAll(Tail(s), old, new)

\* strings.TrimRight(s, cutset) and strings.TrimLeft(s, cutset), the cutset as
\* a set of characters
RECURSIVE TrimRight(_, _)
TrimRight(s, cutset) ==
    IF s # <<>> /\ s[Len(s)] \in cutset
      THEN TrimRight(SubSeq(s, 1, Len(s) - 1), cutset)
      ELSE s

RECURSIVE TrimLeft(_, _)
TrimLeft(s, cutset) ==
    IF s # <<>> /\ s[1] \in cutset THEN TrimLeft(Tail(s), cutset) ELSE s

\* the white space among the characters of the texts here
WhiteSpace == {" ", "\t", "\n", "\r"}

\* strings.TrimSpace(s)
TrimSpace(s) == TrimLeft(TrimRight(s, WhiteSpace), WhiteSpace)

\* a decimal number: sign, the digits without the point, the number of digits
\* after the point; trailing zeros of the fraction and the sign of zero dropped
RECURSIVE Decimal(_, _, _)
Decimal(neg, units, scale) ==
    IF scale > 0 /\ units % 10 = 0 THEN Decimal(neg, units \div 10, scale - 1)
    ELSE [neg |-> neg /\ units # 0, units |-> units, scale |-> scale]

NoDecimal == [neg |-> FALSE, units |-> 0, scale |-> 0]

\* strconv.ParseFloat(s, 64) on texts of signs, digits, points and other
\* characters (no exponent, hexadecimal, underscore, Inf or NaN spelling is
\* among the texts here): whether it succeeds, and the value, which for the
\* short decimals here float64 holds to the printed precision
ParseFloat(s) ==
    LET signed == s # <<>> /\ s[1] \in {"+", "-"}
        body == IF signed THEN Tail(s) ELSE s
        parts == Split(body, ".")
        whole == parts[1]
        frac == IF Len(parts) > 1 THEN parts[2] ELSE <<>>
        ok == /\ Len(parts) <= 2
              /\ AllDigits(whole)
              /\ AllDigits(frac)
              /\ Len(whole) + Len(frac) > 0
    IN  IF ok THEN [ok |-> TRUE,
                    val |-> Decimal(signed /\ s[1] = "-", Atoi(whole \o frac), Len(frac))]
        ELSE [ok |-> FALSE, val |-> NoDecimal]

DaysIn(year, month) ==
    IF month \in {4, 6, 9, 11} THEN 30
    ELSE IF month # 2 THEN 31
    ELSE IF year % 4 = 0 /\ (year % 100 # 0 \/ year % 400 = 0) THEN 29
    ELSE 28

NoDate == [year |-> 0, month |-> 0, day |-> 0]

\* the date of two-digit day and month texts and a year, as time.Parse checks it
DateOf(dd, mm, year, ok) ==
    IF /\ ok
       /\ Len(dd) = 2 /\ AllDigits(dd)
       /\ Len(mm) = 2 /\ AllDigits(mm)
       /\ Atoi(mm) \in 1..12
       /\ Atoi(dd) \in 1..DaysIn(year, Atoi(mm))
      THEN [ok |-> TRUE, date |-> [year |-> year, month |-> Atoi(mm), day |-> Atoi(dd)]]
      ELSE [ok |-> FALSE, date |-> NoDate]

\* time.Parse("02.01.2006", s)
ParseDate2006(s) ==
    LET parts == Split(s, ".")
        ok == Len(parts) = 3 /\ Len(parts[3]) = 4 /\ AllDigits(parts[3])
    IN  IF ok THEN DateOf(parts[1], parts[2], Atoi(parts[3]), TRUE)
        ELSE DateOf(<<>>, <<>>, 0, FALSE)

\* time.Parse("02.01.06", s): a two-digit year from 69 on is 19yy, else 20yy
ParseDate06(s) ==
    LET parts == Split(s, ".")
        ok == Len(parts) = 3 /\ Len(parts[3]) = 2 /\ AllDigits(parts[3])
        yy == Atoi(parts[3])
    IN  IF ok THEN DateOf(parts[1], parts[2], IF yy >= 69 THEN 1900 + yy ELSE 2000 + yy, TRUE)
        ELSE DateOf(<<>>, <<>>, 0, FALSE)

\* a text of two digits that denotes a number up to max
TwoDigits(s, max) == Len(s) = 2 /\ AllDigits(s) /\ Atoi(s) <= max

\* time.Parse("2006-01-02 15:04:05", s); the time of day is not kept
ParseDateTime(s) ==
    LET halves == Split(s, " ")
        ymd == Split(halves[1], "-")
        hms == IF Len(halves) = 2 THEN Split(halves[2], ":") ELSE <<>>
        ok == /\ Len(halves) = 2
              /\ Len(ymd) = 3 /\ Len(ymd[1]) = 4 /\ AllDigits(ymd[1])
              /\ Len(hms) = 3
              /\ TwoDigits(hms[1], 23) /\ TwoDigits(hms[2], 59) /\ TwoDigits(hms[3], 59)
    IN  IF ok THEN DateOf(ymd[3], ymd[2], Atoi(ymd[1]), TRUE)
        ELSE DateOf(<<>>, <<>>, 0, FALSE)

(***************************************************************************)
(* encoding/csv as the parsers use it.  A text file is the sequence of its *)
(* lines without the line ends.                                            *)
(***************************************************************************)
Quote == "\""

\* the first position from i on of a character of the set in the text, or
\* the position after its end
NextOf(text, i, set) ==
    LET at == {j \in i..Len(text) : text[j] \in set}
    IN  IF at = {} THEN Len(text) + 1 ELSE CHOOSE j \in at : \A k \in at : j <= k

\* Reader.readRecord on the text of one record from position i on: mode is
\* "start" at the start of a field, "plain" in a field without quotes,
\* "quoted" inside quotes, "closed" behind a quote met inside quotes.
\* open: the text ended inside quotes.
RECURSIVE CsvScan(_, _, _, _, _, _, _)
CsvScan(text, comma, lazy, i, mode, field, fields) ==
    IF i > Len(text)
      THEN [err |-> FALSE, open |-> mode = "quoted",
            fields |-> IF mode = "quoted" THEN fields ELSE Append(fields, field)]
    ELSE LET c == text[i]
         IN  CASE mode = "start" /\ c = Quote ->
                    CsvScan(text, comma, lazy, i + 1, "quoted", <<>>, fields)
               [] mode \in {"start", "plain"} /\ c = comma ->
                    CsvScan(text, comma, lazy, i + 1, "start", <<>>, Append(fields, field))
               [] mode \in {"start", "plain"} /\ c = Quote /\ ~lazy ->
                    [err |-> TRUE, open |-> FALSE, fields |-> <<>>]
               [] mode \in {"start", "plain"} /\ c = Quote ->
                    CsvScan(text, comma, lazy, i + 1, "plain", Append(field, c), fields)
               [] mode \in {"start", "plain"} ->
                    LET j == NextOf(text, i, {comma, Quote})
                    IN  CsvScan(text, comma, lazy, j, "plain",
                                field \o SubSeq(text, i, j - 1), fields)
               [] mode = "quoted" /\ c = Quote ->
                    CsvScan(text, comma, lazy, i + 1, "closed", field, fields)
               [] mode = "quoted" ->
                    LET j == NextOf(text, i, {Quote})
                    IN  CsvScan(text, comma, lazy, j, "quoted",
                                field \o SubSeq(text, i, j - 1), fields)
               [] mode = "closed" /\ c = Quote ->
                    CsvScan(text, comma, lazy, i + 1, "quoted", Append(field, Quote), fields)
               [] mode = "closed" /\ c = comma ->
                    CsvScan(text, comma, lazy, i + 1, "start", <<>>, Append(fields, field))
               [] mode = "closed" /\ lazy ->
                    CsvScan(text, comma, lazy, i, "quoted", Append(field, Quote), fields)
               [] OTHER -> [err |-> TRUE, open |-> FALSE, fields |-> <<>>]

\* the fields of the text of one record; a text without a quote is split at
\* the commas
CsvRecord(text, comma, lazy) ==
    IF \A i \in 1..Len(text) : text[i] # Quote
      THEN [err |-> FALSE, open |-> FALSE, fields |-> Split(text, comma)]
      ELSE CsvScan(text, comma, lazy, 1, "start", <<>>, <<>>)

\* Reader.ReadAll from line i on without the check of the field count: blank
\* lines are skipped, a line that ends inside quotes goes on in the next one
\* (start, text: the line where the record in progress started and its text),
\* at the end of the file an open quote is an error unless LazyQuotes is set.
\* starts: for each record the number of the line it starts at.
RECURSIVE ReadFrom(_, _, _, _, _, _)
ReadFrom(lines, i, comma, lazy, start, text) ==
    IF i > Len(lines)
      THEN IF start = 0 THEN [err |-> FALSE, records |-> <<>>, starts |-> <<>>]
           ELSE IF lazy
             THEN [err |-> FALSE, starts |-> <<start>>,
                   records |-> <<CsvRecord(Append(text, Quote), comma, lazy).fields>>]
           ELSE [err |-> TRUE, records |-> <<>>, starts |-> <<>>]
    ELSE IF start = 0 /\ lines[i] = <<>>
      THEN ReadFrom(lines, i + 1, comma, lazy, 0, <<>>)
    ELSE LET t == IF start = 0 THEN lines[i] ELSE text \o <<"\n">> \o lines[i]
             st == IF start = 0 THEN i ELSE start
             r == CsvRecord(t, comma, lazy)
         IN  IF r.err THEN [err |-> TRUE, records |-> <<>>, starts |-> <<>>]
             ELSE IF r.open THEN ReadFrom(lines, i + 1, comma, lazy, st, t)
             ELSE LET rest == ReadFrom(lines, i + 1, comma, lazy, 0, <<>>)
                  IN  IF rest.err THEN rest
                      ELSE [err |-> FALSE, records |-> <<r.fields>> \o rest.records,
                            starts |-> <<st>> \o rest.starts]

\* csv.NewReader(infile) with Comma, LazyQuotes and FieldsPerRecord set, then
\* ReadAll(): FieldsPerRecord 0 makes every record have as many fields as the
\* first one, FieldsPerRecord -1 allows any number
ReadAll(lines, comma, lazy, fieldsPerRecord) ==
    LET r == ReadFrom(lines, 1, comma, lazy, 0, <<>>)
    IN  IF r.err THEN r
        ELSE IF /\ fieldsPerRecord = 0
                /\ \E k \in 1..Len(r.records) : Len(r.records[k]) # Len(r.records[1])
          THEN [err |-> TRUE, records |-> <<>>, starts |-> <<>>]
        ELSE r

(***************************************************************************)
(* The five parsers on the text of a file.  A file is missing, a text file *)
(* (kind "csv": its lines) or a workbook (kind "xlsx": whether it has a    *)
(* sheet "Sheet1", and the rows of that sheet as sequences of cells).  The *)
(* result of ParseFile: err is "nil" or the ErrorType of the *ParserError  *)
(* returned, with its Line and Field, or "panic" when the call panics;     *)
(* entries is the field entries of the parser afterwards.                  *)
(***************************************************************************)
IOError == "IOError"
HeaderError == "HeaderError"
DataParsingError == "DataParsingError"

\* &ParserError{ErrorType: type, Line: line, Field: field} returned, or nil
Returned(type, line, field, entries) ==
    [err |-> type, Line |-> line, Field |-> field, entries |-> entries]

\* what a csv reader makes of the bytes of a workbook is not modelled: the
\* parsers that read text return one of these errors for it
OnWorkbook(types, line) == {Returned(t, IF t = HeaderError THEN line ELSE 0, "", <<>>) : t \in types}

VolksbankExpected ==
    <<<<"B", "e", "z", "e", "i", "c", "h", "n", "u", "n", "g", " ", "A", "u", "f", "t", "r", "a", "g", "s", "k", "o", "n", "t", "o">>, <<"I", "B", "A", "N", " ", "A", "u", "f", "t", "r", "a", "g", "s", "k", "o", "n", "t", "o">>, <<"B", "I", "C", " ", "A", "u", "f", "t", "r", "a", "g", "s", "k", "o", "n", "t", "o">>,
      <<"B", "a", "n", "k", "n", "a", "m", "e", " ", "A", "u", "f", "t", "r", "a", "g", "s", "k", "o", "n", "t", "o">>, <<"B", "u", "c", "h", "u", "n", "g", "s", "t", "a", "g">>, <<"V", "a", "l", "u", "t", "a", "d", "a", "t", "u", "m">>,
      <<"N", "a", "m", "e", " ", "Z", "a", "h", "l", "u", "n", "g", "s", "b", "e", "t", "e", "i", "l", "i", "g", "t", "e", "r">>, <<"I", "B", "A", "N", " ", "Z", "a", "h", "l", "u", "n", "g", "s", "b", "e", "t", "e", "i", "l", "i", "g", "t", "e", "r">>,
      <<"B", "I", "C", " ", "(", "S", "W", "I", "F", "T", "-", "C", "o", "d", "e", ")", " ", "Z", "a", "h", "l", "u", "n", "g", "s", "b", "e", "t", "e", "i", "l", "i", "g", "t", "e", "r">>, <<"B", "u", "c", "h", "u", "n", "g", "s", "t", "e", "x", "t">>,
      <<"V", "e", "r", "w", "e", "n", "d", "u", "n", "g", "s", "z", "w", "e", "c", "k">>, <<"B", "e", "t", "r", "a", "g">>, <<"W", "a", "e", "h", "r", "u", "n", "g">>, <<"S", "a", "l", "d", "o", " ", "n", "a", "c", "h", " ", "B", "u", "c", "h", "u", "n", "g">>,
      <<"B", "e", "m", "e", "r", "k", "u", "n", "g">>, <<"G", "e", "k", "e", "n", "n", "z", "e", "i", "c", "h", "n", "e", "t", "e", "r", " ", "U", "m", "s", "a", "t", "z">>, <<"G", "l", "a", "e", "u", "b", "i", "g", "e", "r", " ", "I", "D">>,
      <<"M", "a", "n", "d", "a", "t", "s", "r", "e", "f", "e", "r", "e", "n", "z">>>>

isValidVolksbankHeader(record) == record = VolksbankExpected

\* the loop over records[1:] at the record k, counted from 1: lineNr + 2 = k
\* and row[n] of the code is row[n + 1] here
RECURSIVE volksbankRows(_, _, _)
volksbankRows(records, k, entries) ==
    IF k > Len(records) THEN Returned("nil", 0, "", entries)
    ELSE LET row == records[k]
             date == ParseDate2006(row[5])
             betrag == ParseFloat(ReplaceAll(row[12], ",", <<".">>))
         IN  IF ~date.ok THEN Returned(DataParsingError, k, "Buchungstag", entries)
             ELSE IF ~betrag.ok THEN Returned(DataParsingError, k, "Betrag", entries)
             ELSE volksbankRows(records, k + 1,
                      Append(entries, [buchungstag |-> date.date,
                                       verwendungszweck |-> row[11],
                                       nameZahlungsbeteiligter |-> row[7],
                                       betrag |-> betrag.val]))

\* (m *volksbankParser) ParseFile; entries: m.entries before the call
volksbankParseFile(entries, file) ==
    LET fresh == <<>>
        r == ReadAll(file.lines, ";", FALSE, 0)
    IN  IF file.kind = "missing" THEN {Returned(IOError, 0, "", fresh)}
        ELSE IF file.kind = "xlsx" THEN OnWorkbook({IOError, HeaderError}, 1)
        ELSE IF r.err THEN {Returned(IOError, 0, "", fresh)}
        ELSE IF Len(r.records) = 0 THEN {Returned(HeaderError, 0, "", fresh)}
        ELSE IF ~isValidVolksbankHeader(r.records[1])
          THEN {Returned(HeaderError, 1, "", fresh)}
        ELSE {volksbankRows(r.records, 2, fresh)}

MoneyWalletExpected ==
    <<<<"w", "a", "l", "l", "e", "t">>, <<"c", "u", "r", "r", "e", "n", "c", "y">>, <<"c", "a", "t", "e", "g", "o", "r", "y">>, <<"d", "a", "t", "e", "t", "i", "m", "e">>, <<"m", "o", "n", "e", "y">>, <<"d", "e", "s", "c", "r", "i", "p", "t", "i", "o", "n">>>>

isValidMoneyWalletHeader(record) == record = MoneyWalletExpected

\* the loop over records[1:] at the record k, counted from 1: lineNr + 1 = k - 1
RECURSIVE moneywalletRows(_, _, _)
moneywalletRows(records, k, entries) ==
    IF k > Len(records) THEN Returned("nil", 0, "", entries)
    ELSE LET row == records[k]
             date == ParseDateTime(row[4])
             money == ParseFloat(TrimSpace(ReplaceAll(row[5], ",", <<".">>)))
         IN  IF ~date.ok THEN Returned(DataParsingError, k - 1, "datetime", entries)
             ELSE IF ~money.ok THEN Returned(DataParsingError, k - 1, "money", entries)
             ELSE moneywalletRows(records, k + 1,
                      Append(entries, [wallet |-> row[1], currency |-> row[2],
                                       category |-> row[3], datetime |-> date.date,
                                       money |-> money.val, description |-> row[6]]))

\* (m *moneywalletParser) ParseFile
moneywalletParseFile(entries, file) ==
    LET fresh == <<>>
        r == ReadAll(file.lines, ",", FALSE, 0)
    IN  IF file.kind = "missing" THEN {Returned(IOError, 0, "", fresh)}
        ELSE IF file.kind = "xlsx" THEN OnWorkbook({IOError, HeaderError}, 1)
        ELSE IF r.err THEN {Returned(IOError, 0, "", fresh)}
        ELSE IF Len(r.records) = 0 THEN {Returned(HeaderError, 0, "", fresh)}
        ELSE IF ~isValidMoneyWalletHeader(r.records[1])
          THEN {Returned(HeaderError, 1, "", fresh)}
        ELSE {moneywalletRows(r.records, 2, fresh)}

\* strings.Index(s, substr) counted from 1: the first position where substr
\* stands in s, or 0
Index(s, substr) ==
    LET at == {i \in 1..Len(s) - Len(substr) + 1 :
                  SubSeq(s, i, i + Len(substr) - 1) = substr}
    IN  IF at = {} THEN 0 ELSE CHOOSE i \in at : \A j \in at : i <= j

\* splitComdirectBuchungstext(fields, buchungstext): whether a slice
\* expression is out of range (panic), and else the map from the names of
\* the fields found to their values.  startPositions keeps for a position the last field of
\* the list found there.
splitComdirectBuchungstext(fields, buchungstext) ==
    LET pos == [k \in 1..Len(fields) |-> Index(buchungstext, Append(fields[k], ":"))]
        starts == {pos[k] : k \in 1..Len(fields)} \ {0}
        startPositions ==
            [i \in starts |->
                fields[CHOOSE k \in 1..Len(fields) :
                           pos[k] = i /\ \A l \in k + 1..Len(fields) : pos[l] # i]]
        endIndex(i) ==
            IF \E j \in starts : j > i
              THEN CHOOSE j \in starts : j > i /\ \A l \in starts : l > i => j <= l
              ELSE Len(buchungstext) + 1
        from(i) == i + Len(startPositions[i]) + 1
        names == {startPositions[i] : i \in starts}
    IN  IF \E i \in starts : from(i) > endIndex(i)
          THEN [panic |-> TRUE, result |-> <<>>]
          ELSE [panic |-> FALSE,
                result |->
                    [name \in names |->
                        LET i == CHOOSE j \in starts : startPositions[j] = name
                        IN  TrimSpace(SubSeq(buchungstext, from(i), endIndex(i) - 1))]]

\* val, ok := splitInfo[name]; the zero value when the name is missing
SplitValue(splitInfo, name) ==
    IF name \in DOMAIN splitInfo THEN splitInfo[name] ELSE <<>>

\* listOfFields of comdirectParser.ParseFile
ListOfFields == <<<<"A", "u", "f", "t", "r", "a", "g", "g", "e", "b", "e", "r">>, <<"B", "u", "c", "h", "u", "n", "g", "s", "t", "e", "x", "t">>, <<"E", "m", "p", "f", "ä", "n", "g", "e", "r">>, <<"K", "t", "o", "/", "I", "B", "A", "N">>, <<"B", "L", "Z", "/", "B", "I", "C">>>>

ComdirectExpected ==
    <<<<"B", "u", "c", "h", "u", "n", "g", "s", "t", "a", "g">>, <<"W", "e", "r", "t", "s", "t", "e", "l", "l", "u", "n", "g", " ", "(", "V", "a", "l", "u", "t", "a", ")">>, <<"V", "o", "r", "g", "a", "n", "g">>, <<"B", "u", "c", "h", "u", "n", "g", "s", "t", "e", "x", "t">>,
      <<"U", "m", "s", "a", "t", "z", " ", "i", "n", " ", "E", "U", "R">>, <<>>>>

isValidComdirectHeader(record) == record = ComdirectExpected

\* the index, counted from 1, of the first record the header check accepts,
\* or 0: headerIndex + 1.  valid[i]: whether the check accepts record i.
HeaderIndex(valid) ==
    IF \E i \in 1..Len(valid) : valid[i]
      THEN CHOOSE i \in 1..Len(valid) : valid[i] /\ \A j \in 1..i - 1 : ~valid[j]
      ELSE 0

\* the loop over records[headerIndex+1:] at the record k, counted from 1:
\* lineNr + headerIndex + 2 = k
RECURSIVE comdirectRows(_, _, _)
comdirectRows(records, k, entries) ==
    IF k > Len(records) THEN Returned("nil", 0, "", entries)
    ELSE LET row == records[k]
             date == ParseDate2006(row[1])
             umsatz == ParseFloat(ReplaceAll(ReplaceAll(row[5], ".", <<>>), ",", <<".">>))
             splitInfo == splitComdirectBuchungstext(ListOfFields, row[4]).result
         IN  IF Len(row) # 6 THEN comdirectRows(records, k + 1, entries)
             ELSE IF row[1] = <<"o", "f", "f", "e", "n">> THEN comdirectRows(records, k + 1, entries)
             ELSE IF ~date.ok THEN Returned(DataParsingError, k, "Buchungstag", entries)
             ELSE IF ~umsatz.ok
               THEN Returned(DataParsingError, k, "Umsatz in EUR", entries)
             ELSE IF splitComdirectBuchungstext(ListOfFields, row[4]).panic THEN Returned("panic", 0, "", entries)
             ELSE comdirectRows(records, k + 1,
                      Append(entries, [buchungstag |-> date.date, vorgang |-> row[3],
                                       fullBuchungstext |-> row[4],
                                       auftraggeber |-> SplitValue(splitInfo, <<"A", "u", "f", "t", "r", "a", "g", "g", "e", "b", "e", "r">>),
                                       buchungstext |-> SplitValue(splitInfo, <<"B", "u", "c", "h", "u", "n", "g", "s", "t", "e", "x", "t">>),
                                       empfaenger |-> SplitValue(splitInfo, <<"E", "m", "p", "f", "ä", "n", "g", "e", "r">>),
                                       ktoIBAN |-> SplitValue(splitInfo, <<"K", "t", "o", "/", "I", "B", "A", "N">>),
                                       blzBic |-> SplitValue(splitInfo, <<"B", "L", "Z", "/", "B", "I", "C">>),
                                       umsatz_eur |-> umsatz.val]))

\* (m *comdirectParser) ParseFile; the text is the file decoded from ISO 8859-1
comdirectParseFile(entries, file) ==
    LET fresh == <<>>
        r == ReadAll(file.lines, ";", FALSE, -1)
        header == HeaderIndex([i \in 1..Len(r.records) |-> isValidComdirectHeader(r.records[i])])
    IN  IF file.kind = "missing" THEN {Returned(IOError, 0, "", fresh)}
        ELSE IF file.kind = "xlsx" THEN OnWorkbook({IOError, HeaderError}, 0)
        ELSE IF r.err THEN {Returned(IOError, 0, "", fresh)}
        ELSE IF header = 0 THEN {Returned(HeaderError, 0, "", fresh)}
        ELSE {comdirectRows(r.records, header + 1, fresh)}

DkbExpected ==
    <<<<"B", "u", "c", "h", "u", "n", "g", "s", "d", "a", "t", "u", "m">>, <<"W", "e", "r", "t", "s", "t", "e", "l", "l", "u", "n", "g">>, <<"S", "t", "a", "t", "u", "s">>, <<"Z", "a", "h", "l", "u", "n", "g", "s", "p", "f", "l", "i", "c", "h", "t", "i", "g", "e", "*", "r">>,
      <<"Z", "a", "h", "l", "u", "n", "g", "s", "e", "m", "p", "f", "ä", "n", "g", "e", "r", "*", "i", "n">>, <<"V", "e", "r", "w", "e", "n", "d", "u", "n", "g", "s", "z", "w", "e", "c", "k">>, <<"U", "m", "s", "a", "t", "z", "t", "y", "p">>, <<"I", "B", "A", "N">>,
      <<"B", "e", "t", "r", "a", "g", " ", "(", "€", ")">>, <<"G", "l", "ä", "u", "b", "i", "g", "e", "r", "-", "I", "D">>, <<"M", "a", "n", "d", "a", "t", "s", "r", "e", "f", "e", "r", "e", "n", "z">>, <<"K", "u", "n", "d", "e", "n", "r", "e", "f", "e", "r", "e", "n", "z">>>>

isValidDkbHeader(record) == record = DkbExpected

\* the loop over records[headerIndex+1:] at the record k, counted from 1:
\* nonEmptyLineNr = headerIndex + lineNr + 2 = k
RECURSIVE dkbRows(_, _, _)
dkbRows(records, k, entries) ==
    IF k > Len(records) THEN Returned("nil", 0, "", entries)
    ELSE LET row == records[k]
             buchungsdatum == ParseDate06(row[1])
             wertstellung == ParseDate06(row[2])
             amount == ParseFloat(ReplaceAll(ReplaceAll(row[9], ".", <<>>), ",", <<".">>))
         IN  IF Len(row) # 12 THEN dkbRows(records, k + 1, entries)
             ELSE IF row[3] # <<"G", "e", "b", "u", "c", "h", "t">> THEN dkbRows(records, k + 1, entries)
             ELSE IF ~buchungsdatum.ok
               THEN Returned(DataParsingError, k, "Buchungsdatum", entries)
             ELSE IF ~wertstellung.ok
               THEN Returned(DataParsingError, k, "Wertstellung", entries)
             ELSE IF ~amount.ok
               THEN Returned(DataParsingError, k, "Betrag (€)", entries)
             ELSE IF /\ row[7] = <<"E", "i", "n", "g", "a", "n", "g">>
                     /\ amount.val.units = 0
                     /\ row[4] = <<"D", "K", "B", " ", "A", "G">>
                     /\ row[5] = <<"D", "K", "B", " ", "A", "G">>
               THEN dkbRows(records, k + 1, entries)
             ELSE dkbRows(records, k + 1,
                      Append(entries, [buchungsdatum |-> buchungsdatum.date,
                                       wertstellung |-> wertstellung.date,
                                       status |-> row[3],
                                       zahlungspflichtiger |-> row[4],
                                       zahlungsempfaenger |-> row[5],
                                       verwendungszweck |-> row[6],
                                       umsatztyp |-> row[7],
                                       iban |-> row[8],
                                       betrag_eur |-> amount.val,
                                       glaeubigerId |-> row[10],
                                       mandatsreferenz |-> row[11],
                                       kundenreferenz |-> row[12]]))

\* a ParseFile that expects the header in the fourth record instead of
\* looking for it
dkbParseFileFixedRecord(entries, file) ==
    LET fresh == <<>>
        r == ReadAll(file.lines, ";", TRUE, -1)
    IN  IF file.kind = "missing" THEN {Returned(IOError, 0, "", fresh)}
        ELSE IF file.kind = "xlsx" THEN OnWorkbook({HeaderError}, 0)
        ELSE IF r.err THEN {Returned(IOError, 0, "", fresh)}
        ELSE IF Len(r.records) < 4 THEN {Returned(HeaderError, 0, "", fresh)}
        ELSE IF ~isValidDkbHeader(r.records[4]) THEN {Returned(HeaderError, 5, "", fresh)}
        ELSE {dkbRows(r.records, 5, fresh)}

\* (p *dkbParser) ParseFile; with LazyQuotes and any number of fields the
\* reader fails on no text
dkbParseFile(entries, file) ==
    LET fresh == <<>>
        r == ReadAll(file.lines, ";", TRUE, -1)
        header == HeaderIndex([i \in 1..Len(r.records) |-> isValidDkbHeader(r.records[i])])
    IN  IF file.kind = "missing" THEN {Returned(IOError, 0, "", fresh)}
        ELSE IF file.kind = "xlsx" THEN OnWorkbook({HeaderError}, 0)
        ELSE IF r.err THEN {Returned(IOError, 0, "", fresh)}
        ELSE IF header = 0 THEN {Returned(HeaderError, 0, "", fresh)}
        ELSE {dkbRows(r.records, header + 1, fresh)}

BarclaycardExpected ==
    <<<<"R", "e", "f", "e", "r", "e", "n", "z", "n", "u", "m", "m", "e", "r">>, <<"B", "u", "c", "h", "u", "n", "g", "s", "d", "a", "t", "u", "m">>, <<"B", "u", "c", "h", "u", "n", "g", "s", "d", "a", "t", "u", "m">>, <<"B", "e", "t", "r", "a", "g">>,
      <<"B", "e", "s", "c", "h", "r", "e", "i", "b", "u", "n", "g">>, <<"T", "y", "p">>, <<"S", "t", "a", "t", "u", "s">>, <<"K", "a", "r", "t", "e", "n", "n", "u", "m", "m", "e", "r">>, <<"O", "r", "i", "g", "i", "n", "a", "l", "b", "e", "t", "r", "a", "g">>,
      <<"M", "ö", "g", "l", "i", "c", "h", "e", " ", "Z", "a", "h", "l", "p", "l", "ä", "n", "e">>, <<"L", "a", "n", "d">>, <<"N", "a", "m", "e", " ", "d", "e", "s", " ", "K", "a", "r", "t", "e", "n", "i", "n", "h", "a", "b", "e", "r", "s">>,
      <<"K", "a", "r", "t", "e", "n", "n", "e", "t", "z", "w", "e", "r", "k">>, <<"K", "o", "n", "t", "a", "k", "t", "l", "o", "s", "e", " ", "B", "e", "z", "a", "h", "l", "u", "n", "g">>, <<"H", "ä", "n", "d", "l", "e", "r", "d", "e", "t", "a", "i", "l", "s">>>>

isValidBarclaycardHeader(record) == record = BarclaycardExpected

\* a row as excelize returns it: without the empty cells at its end
RECURSIVE TrimCells(_)
TrimCells(row) ==
    IF row # <<>> /\ row[Len(row)] = <<>> THEN TrimCells(SubSeq(row, 1, Len(row) - 1))
    ELSE row

\* f.GetRows("Sheet1"): the rows of the sheet up to the last one with a
\* non-empty cell, each without the empty cells at its end
RECURSIVE GetRows(_)
GetRows(rows) ==
    IF rows # <<>> /\ TrimCells(rows[Len(rows)]) = <<>>
      THEN GetRows(SubSeq(rows, 1, Len(rows) - 1))
      ELSE [k \in 1..Len(rows) |-> TrimCells(rows[k])]

\* the loop over rows at the row k, counted from 1: lineNr + 1 = k; an index
\* beyond the cells of a row panics
RECURSIVE barclaycardRows(_, _, _, _)
barclaycardRows(rows, k, inDataSection, entries) ==
    IF k > Len(rows)
      THEN IF inDataSection THEN Returned("nil", 0, "", entries)
           ELSE Returned(HeaderError, 0, "", entries)
    ELSE LET row == rows[k]
             tDate == ParseDate2006(row[2])
             bDate == ParseDate2006(row[3])
             value == ParseFloat(TrimSpace(TrimRight(ReplaceAll(row[4], ",", <<".">>), {"€"})))
         IN  IF ~inDataSection
               THEN barclaycardRows(rows, k + 1, isValidBarclaycardHeader(row), entries)
             ELSE IF Len(row) < 2 THEN Returned("panic", 0, "", entries)
             ELSE IF ~tDate.ok
               THEN Returned(DataParsingError, k, "Buchungsdatum(1)/Transaktionsdatum",
                             entries)
             ELSE IF Len(row) < 3 THEN Returned("panic", 0, "", entries)
             ELSE IF Len(row[3]) = 0 THEN barclaycardRows(rows, k + 1, TRUE, entries)
             ELSE IF ~bDate.ok THEN Returned(DataParsingError, k, "Buchungsdatum", entries)
             ELSE IF Len(row) < 4 THEN Returned("panic", 0, "", entries)
             ELSE IF ~value.ok THEN Returned(DataParsingError, k, "Betrag", entries)
             ELSE IF Len(row) < 15 THEN Returned("panic", 0, "", entries)
             ELSE barclaycardRows(rows, k + 1, TRUE,
                      Append(entries, [transactionDate |-> tDate.date,
                                       bookingDate |-> bDate.date,
                                       value |-> value.val,
                                       description |-> row[5],
                                       payee |-> row[15]]))

\* (b *barclaycardParser) ParseFile: a text file is no workbook
barclaycardParseFile(entries, file) ==
    LET fresh == <<>>
    IN  IF file.kind # "xlsx" THEN {Returned(IOError, 0, "", fresh)}
        ELSE IF ~file.sheet1 THEN {Returned(HeaderError, 0, "", fresh)}
        ELSE {barclaycardRows(GetRows(file.lines), 1, FALSE, fresh)}

\* p.ParseFile(file) for the parser GetParser returns for a format
ParseFileOf(p, entries, file) ==
    CASE p = "moneywalletParser" -> moneywalletParseFile(entries, file)
      [] p = "barclaycardParser" -> barclaycardParseFile(entries, file)
      [] p = "volksbankParser" -> volksbankParseFile(entries, file)
      [] p = "comdirectParser" -> comdirectParseFile(entries, file)
      [] p = "dkbParser" -> dkbParseFile(entries, file)

(***************************************************************************)
(* The input files the parsers are called with: up to MaxLines lines, each *)
(* of one of the kinds of LineTags, written in the layout of one format.   *)
(***************************************************************************)
MaxLines == 3

\* the parser of each format
Parsers == {GetParser(f) : f \in SourceFormats}

\* the expected header of the format of parser p
ExpectedHeader(p) ==
    CASE p = "moneywalletParser" -> MoneyWalletExpected
      [] p = "barclaycardParser" -> BarclaycardExpected
      [] p = "volksbankParser" -> VolksbankExpected
      [] p = "comdirectParser" -> ComdirectExpected
      [] p = "dkbParser" -> DkbExpected

\* the header check of parser p
isValidHeader(p, record) ==
    CASE p = "moneywalletParser" -> isValidMoneyWalletHeader(record)
      [] p = "barclaycardParser" -> isValidBarclaycardHeader(record)
      [] p = "volksbankParser" -> isValidVolksbankHeader(record)
      [] p = "comdirectParser" -> isValidComdirectHeader(record)
      [] p = "dkbParser" -> isValidDkbHeader(record)

\* Comma of the csv reader of parser p
CommaOf(p) == IF p = "moneywalletParser" THEN "," ELSE ";"

\* a date in the layout parser p reads, and the same day in another layout
GoodDate(p) ==
    CASE p = "moneywalletParser" -> <<"2", "0", "2", "3", "-", "0", "8", "-", "0", "5", " ", "1", "0", ":", "0", "0", ":", "0", "0">>
      [] p = "dkbParser" -> <<"0", "5", ".", "0", "8", ".", "2", "3">>
      [] OTHER -> <<"0", "5", ".", "0", "8", ".", "2", "0", "2", "3">>

BadDate(p) == IF p = "moneywalletParser" THEN <<"0", "5", ".", "0", "8", ".", "2", "0", "2", "3">> ELSE <<"2", "0", "2", "3", "-", "0", "8", "-", "0", "5">>

\* an amount as the format writes it
AmountText(p, amount) == IF p = "barclaycardParser" THEN amount \o <<" ", "€">> ELSE amount

\* a data row of the format of parser p with the given date, amount and
\* texts, booked or not
DataRow(p, date, amount, booked, payee, memo) ==
    CASE p = "moneywalletParser" ->
           <<<<"C", "a", "s", "h">>, <<"E", "U", "R">>, payee, date, amount, memo>>
      [] p = "barclaycardParser" ->
           <<<<"R", "1">>, date, IF booked THEN date ELSE <<>>, amount, memo,
             <<"K", "a", "u", "f">>, <<"B", "e", "r", "e", "c", "h", "n", "e", "t">>, <<"1", "2", "3", "4">>, amount, <<>>, <<"D", "E">>, <<"M", "a", "x">>, <<"V", "i", "s", "a">>,
             <<"J", "a">>, payee>>
      [] p = "volksbankParser" ->
           <<<<"G", "i", "r", "o">>, <<"D", "E", "1", "2">>, <<"G", "E", "N", "O">>, <<"B", "a", "n", "k">>, date, date, payee, <<"D", "E", "3", "4">>, <<"B", "I", "C">>,
             <<"L", "a", "s", "t", "s", "c", "h", "r", "i", "f", "t">>, memo, amount, <<"E", "U", "R">>, <<"1", "0", "0", ",", "0", "0">>, <<>>, <<>>, <<>>, <<>>>>
      [] p = "comdirectParser" ->
           <<IF booked THEN date ELSE <<"o", "f", "f", "e", "n">>, date, <<"L", "a", "s", "t", "s", "c", "h", "r", "i", "f", "t">>, memo,
             amount, <<>>>>
      [] p = "dkbParser" ->
           <<date, date, IF booked THEN <<"G", "e", "b", "u", "c", "h", "t">> ELSE <<"V", "o", "r", "g", "e", "m", "e", "r", "k", "t">>,
             <<"M", "a", "x">>, payee, memo, <<"A", "u", "s", "g", "a", "n", "g">>, <<"D", "E", "3", "4">>, amount, <<>>, <<>>, <<>>>>

\* the kinds of line
LineTags ==
    {"blank", "preamble", "header", "headerField", "headerShort", "good",
     "thousands", "badDate", "badAmount", "short", "long", "marker"}

\* the formats that mark rows that are no data
HasMarker(p) == p \in {"barclaycardParser", "comdirectParser", "dkbParser"}

TagsOf(p) == IF HasMarker(p) THEN LineTags ELSE LineTags \ {"marker"}

GoodRow(p) == DataRow(p, GoodDate(p), AmountText(p, <<"-", "1", "2", ",", "5", "0">>), TRUE, <<"S", "h", "o", "p">>, <<"M", "e", "m", "o">>)

\* the fields of a line of kind tag in the format of parser p
RowOf(p, tag) ==
    CASE tag = "blank" -> <<>>
      [] tag = "preamble" -> <<<<"U", "m", "s", "a", "e", "t", "z", "e">>>>
      [] tag = "header" -> ExpectedHeader(p)
      [] tag = "headerField" ->
           [ExpectedHeader(p) EXCEPT ![Len(ExpectedHeader(p))] = <<"X">>]
      [] tag = "headerShort" ->
           SubSeq(ExpectedHeader(p), 1, Len(ExpectedHeader(p)) - 1)
      [] tag = "good" -> GoodRow(p)
      [] tag = "thousands" ->
           DataRow(p, GoodDate(p), AmountText(p, <<"1", ".", "2", "3", "4", ",", "5", "6">>), TRUE, <<"S", "h", "o", "p">>, <<"M", "e", "m", "o">>)
      [] tag = "badDate" ->
           DataRow(p, BadDate(p), AmountText(p, <<"-", "1", "2", ",", "5", "0">>), TRUE, <<"S", "h", "o", "p">>, <<"M", "e", "m", "o">>)
      [] tag = "badAmount" ->
           DataRow(p, GoodDate(p), AmountText(p, <<"a", "b", "c">>), TRUE, <<"S", "h", "o", "p">>, <<"M", "e", "m", "o">>)
      [] tag = "short" -> SubSeq(GoodRow(p), 1, Len(GoodRow(p)) - 1)
      [] tag = "long" -> Append(GoodRow(p), <<"x">>)
      [] tag = "marker" ->
           DataRow(p, GoodDate(p), AmountText(p, <<"-", "1", "2", ",", "5", "0">>), FALSE, <<"S", "h", "o", "p">>, <<"M", "e", "m", "o">>)

\* a field as a csv writer puts it: in quotes when it holds the separator
Quoted(field, comma) ==
    IF \E i \in 1..Len(field) : field[i] = comma
      THEN <<Quote>> \o field \o <<Quote>>
      ELSE field

\* the line of a text file with the given fields
LineOf(row, comma) == Join([i \in 1..Len(row) |-> Quoted(row[i], comma)], comma)

MissingFile == [kind |-> "missing", sheet1 |-> FALSE, lines |-> <<>>]

\* the file of the format of parser p whose lines are of the kinds tags
FileOf(p, tags) ==
    IF p = "barclaycardParser"
      THEN [kind |-> "xlsx", sheet1 |-> TRUE,
            lines |-> [i \in 1..Len(tags) |-> RowOf(p, tags[i])]]
      ELSE [kind |-> "csv", sheet1 |-> FALSE,
            lines |-> [i \in 1..Len(tags) |-> LineOf(RowOf(p, tags[i]), CommaOf(p))]]

\* the entries a parser holds from an earlier ParseFile
OldEntries == {<<>>, <<"entry of an earlier file">>}

(***************************************************************************)
(* ParseFile and the header checks called on their own.                    *)
(***************************************************************************)
\* the sequences of up to n elements of S
SeqUpTo(S, n) == UNION {[1..m -> S] : m \in 0..n}

\* headerOk, headerNok and headerWrongLength of TestIsValidVolksbankHeader
headerOk ==
    <<<<"B", "e", "z", "e", "i", "c", "h", "n", "u", "n", "g", " ", "A", "u", "f", "t", "r", "a", "g", "s", "k", "o", "n", "t", "o">>, <<"I", "B", "A", "N", " ", "A", "u", "f", "t", "r", "a", "g", "s", "k", "o", "n", "t", "o">>, <<"B", "I", "C", " ", "A", "u", "f", "t", "r", "a", "g", "s", "k", "o", "n", "t", "o">>,
      <<"B", "a", "n", "k", "n", "a", "m", "e", " ", "A", "u", "f", "t", "r", "a", "g", "s", "k", "o", "n", "t", "o">>, <<"B", "u", "c", "h", "u", "n", "g", "s", "t", "a", "g">>, <<"V", "a", "l", "u", "t", "a", "d", "a", "t", "u", "m">>,
      <<"N", "a", "m", "e", " ", "Z", "a", "h", "l", "u", "n", "g", "s", "b", "e", "t", "e", "i", "l", "i", "g", "t", "e", "r">>, <<"I", "B", "A", "N", " ", "Z", "a", "h", "l", "u", "n", "g", "s", "b", "e", "t", "e", "i", "l", "i", "g", "t", "e", "r">>,
      <<"B", "I", "C", " ", "(", "S", "W", "I", "F", "T", "-", "C", "o", "d", "e", ")", " ", "Z", "a", "h", "l", "u", "n", "g", "s", "b", "e", "t", "e", "i", "l", "i", "g", "t", "e", "r">>, <<"B", "u", "c", "h", "u", "n", "g", "s", "t", "e", "x", "t">>, <<"V", "e", "r", "w", "e", "n", "d", "u", "n", "g", "s", "z", "w", "e", "c", "k">>,
      <<"B", "e", "t", "r", "a", "g">>, <<"W", "a", "e", "h", "r", "u", "n", "g">>, <<"S", "a", "l", "d", "o", " ", "n", "a", "c", "h", " ", "B", "u", "c", "h", "u", "n", "g">>, <<"B", "e", "m", "e", "r", "k", "u", "n", "g">>, <<"K", "a", "t", "e", "g", "o", "r", "i", "e">>,
      <<"S", "t", "e", "u", "e", "r", "r", "e", "l", "e", "v", "a", "n", "t">>, <<"G", "l", "a", "e", "u", "b", "i", "g", "e", "r", " ", "I", "D">>, <<"M", "a", "n", "d", "a", "t", "s", "r", "e", "f", "e", "r", "e", "n", "z">>>>

headerNok ==
    [headerOk EXCEPT ![1] = <<"B", "e", "z", "e", "i", "c", "h", "n", "u", "n", "g", " ", "A", "u", "f", "t", "r", "a", "g", "s", "k", "o", "n", "t", "o", " ", "x", "x", "x", "x", "x", "x", "x", "x", "x", "x", "x", "x", "x", "x", "x", "x", "x", "x", "x", "x", "x", "x", "x", "x", "x", "x", "x", "x", "x", "x", "x", "x", "x", "x">>]

headerWrongLength == SubSeq(headerOk, 1, 6)

\* the records the header check of parser p is called with: the expected
\* header, with one field altered, cut short, extended, two fields swapped,
\* and the headers of the test of the Volksbank check
HeaderRecords(p) ==
    LET e == ExpectedHeader(p)
    IN  {e, Append(e, <<>>), Append(e, <<"X">>)}
        \cup {[e EXCEPT ![i] = <<"X">>] : i \in 1..Len(e)}
        \cup {SubSeq(e, 1, n) : n \in 0..Len(e) - 1}
        \cup {[e EXCEPT ![i] = e[i + 1], ![i + 1] = e[i]] : i \in 1..Len(e) - 1}
        \cup (IF p = "volksbankParser" THEN {headerOk, headerNok, headerWrongLength}
              ELSE {})

MaxPreamble == 3

\* files with up to MaxPreamble lines before the header row, which is valid,
\* has one wrong field name or lacks a field, and one data row behind it
PreambleFiles ==
    {[i \in 1..n |-> "preamble"] \o <<h, "good">> :
        n \in 0..MaxPreamble, h \in {"header", "headerField", "headerShort"}}

NoResult == Returned("none", 0, "", <<>>)

\* a call of p.ParseFile on the file written in the given layout
ParseCall(p, layout, tags, file, entries) ==
    [state |-> "call", op |-> "ParseFile", p |-> p, layout |-> layout, tags |-> tags,
     file |-> file, entries |-> entries, res |-> NoResult]

ParseCalls ==
    {ParseCall(p, p, tags, FileOf(p, tags), entries) :
        p \in Parsers, tags \in SeqUpTo(LineTags, MaxLines), entries \in OldEntries}

InitParse ==
    /\ NoBatch
    /\ \/ /\ call \in ParseCalls
          /\ \A i \in 1..Len(call.tags) : call.tags[i] \in TagsOf(call.p)
       \/ call \in {ParseCall(p, p, tags, FileOf(p, tags), <<>>) :
                        p \in Parsers, tags \in PreambleFiles}
       \/ call \in {ParseCall(p, "none", <<>>, MissingFile, entries) :
                        p \in Parsers, entries \in OldEntries}
       \/ /\ call \in {ParseCall(p, layout, tags, FileOf(layout, tags), entries) :
                           p \in Parsers, layout \in Parsers,
                           tags \in {<<"header">>, <<"header", "good">>},
                           entries \in OldEntries}
          /\ call.layout # call.p
       \/ call \in {ParseCall(p, "barclaycardParser", <<"header", "good">>,
                              [FileOf("barclaycardParser", <<"header", "good">>)
                                  EXCEPT !.sheet1 = FALSE], <<>>) : p \in Parsers}
       \/ \E p \in Parsers :
              call \in {[state |-> "call", op |-> "isValidHeader", p |-> p,
                         record |-> record, valid |-> FALSE] :
                            record \in HeaderRecords(p)}

\* err := p.ParseFile(file)
CallParseFile ==
    /\ call.state = "call"
    /\ call.op = "ParseFile"
    /\ \E r \in ParseFileOf(call.p, call.entries, call.file) :
          call' = [call EXCEPT !.state = "done", !.res = r]
    /\ UNCHANGED batchVars

\* the header check of the format of p on a record
CallIsValidHeader ==
    /\ call.state = "call"
    /\ call.op = "isValidHeader"
    /\ call' = [call EXCEPT !.state = "done",
                            !.valid = isValidHeader(call.p, call.record)]
    /\ UNCHANGED batchVars

NextParse ==
    \/ CallParseFile
    \/ CallIsValidHeader

SpecParse == InitParse /\ [][NextParse]_vars

(***************************************************************************)
(* Claims about ParseFile and the header checks.                           *)
(***************************************************************************)
\* ParseFile has returned from a file written in the layout of its own format
Parsed ==
    /\ call.state = "done"
    /\ call.op = "ParseFile"
    /\ call.layout = call.p
    /\ call.file.kind = "xlsx" => call.file.sheet1

\* the file has a line of kind t
HasTag(t) == \E i \in 1..Len(call.tags) : call.tags[i] = t

\* C15: the header check of each format accepts a record exactly when it
\* equals the expected field list element for element, and ParseFile rejects
\* with HeaderError a file whose header row differs from the expected one in
\* one field or in length and that has no row equal to the expected header
C15_HeaderCheck ==
    /\ (call.state = "done" /\ call.op = "isValidHeader") =>
          (call.valid <=>
              /\ Len(call.record) = Len(ExpectedHeader(call.p))
              /\ \A i \in 1..Len(call.record) : call.record[i] = ExpectedHeader(call.p)[i])
    /\ (Parsed /\ ~HasTag("header") /\ (HasTag("headerField") \/ HasTag("headerShort"))) =>
          call.res.err = HeaderError

\* the display name of the date and of the amount column of each format
DisplayName(p, tag) ==
    CASE p = "moneywalletParser" -> IF tag = "badDate" THEN "datetime" ELSE "money"
      [] p = "barclaycardParser" ->
           IF tag = "badDate" THEN "Buchungsdatum(1)/Transaktionsdatum" ELSE "Betrag"
      [] p = "volksbankParser" -> IF tag = "badDate" THEN "Buchungstag" ELSE "Betrag"
      [] p = "comdirectParser" ->
           IF tag = "badDate" THEN "Buchungstag" ELSE "Umsatz in EUR"
      [] p = "dkbParser" -> IF tag = "badDate" THEN "Buchungsdatum" ELSE "Betrag (€)"

\* the kinds of data row with a malformed date or amount
BadTags == {"badDate", "badAmount"}

\* the kinds of line that stand before the header without harm
BeforeHeader(p) ==
    IF p \in {"moneywalletParser", "volksbankParser"} THEN {"blank"}
    ELSE {"blank", "preamble"}

\* line i is the first data row with a malformed date or amount, behind a
\* header that ParseFile finds and valid data rows or blank lines only
FirstBadRow(i) ==
    /\ i \in 1..Len(call.tags)
    /\ call.tags[i] \in BadTags
    /\ \E h \in 1..i - 1 :
          /\ call.tags[h] = "header"
          /\ \A j \in 1..h - 1 : call.tags[j] \in BeforeHeader(call.p)
          /\ \A j \in h + 1..i - 1 :
                /\ call.tags[j] \in {"good", "blank"}
                /\ call.p = "barclaycardParser" => call.tags[j] # "blank"

\* C16: when a data row has a malformed date or amount, ParseFile returns a
\* DataParsingError whose Field is the display name of the offending column
\* and whose Line is the number of the line of that row in the file, counted
\* from 1 and counting blank and preamble lines
C16_ErrorLine ==
    \A i \in 1..MaxLines :
        (Parsed /\ FirstBadRow(i)) =>
            /\ call.res.err = DataParsingError
            /\ call.res.Field = DisplayName(call.p, call.tags[i])
            /\ call.res.Line = i

\* the amount of an entry of parser p
AmountOf(p, entry) ==
    CASE p = "moneywalletParser" -> entry.money
      [] p = "barclaycardParser" -> entry.value
      [] p = "volksbankParser" -> entry.betrag
      [] p = "comdirectParser" -> entry.umsatz_eur
      [] p = "dkbParser" -> entry.betrag_eur

\* the value the amount of a row of kind tag denotes: 1234.56 or -12.50
ValueOf(tag) ==
    IF tag = "thousands" THEN [neg |-> FALSE, units |-> 123456, scale |-> 2]
    ELSE [neg |-> TRUE, units |-> 125, scale |-> 1]

\* the header on line 1, then valid rows only, one of them with an amount
\* with thousands dots
ThousandsFile ==
    /\ Len(call.tags) > 1
    /\ call.tags[1] = "header"
    /\ \A j \in 2..Len(call.tags) : call.tags[j] \in {"good", "thousands"}
    /\ HasTag("thousands")

\* C17: for every format an amount with decimal comma and thousands dots
\* ("1.234,56", in the spreadsheet "1.234,56 €") is parsed without error to
\* the value 1234.56
C17_ThousandsAmount ==
    (Parsed /\ ThousandsFile) =>
        /\ call.res.err = "nil"
        /\ Len(call.res.entries) = Len(call.tags) - 1
        /\ \A j \in 1..Len(call.res.entries) :
              AmountOf(call.p, call.res.entries[j]) = ValueOf(call.tags[j + 1])

\* p.GetNumberOfEntries() of a parser that holds the given entries
GetNumberOfEntries(entries) == Len(entries)

\* C19: after ParseFile of any parser returned an error (IOError, HeaderError
\* or DataParsingError), GetNumberOfEntries of that parser is 0, also when
\* valid rows precede the faulty row and when the parser held entries of an
\* earlier ParseFile
C19_NoEntriesAfterError ==
    (/\ call.state = "done"
     /\ call.op = "ParseFile"
     /\ call.res.err \in {IOError, HeaderError, DataParsingError}) =>
        GetNumberOfEntries(call.res.entries) = 0

\* the kinds of row of the data section that fail a structural check: another
\* number of fields than the format has columns, or a status marker that
\* tells the row is no data
StructuralTags == {"short", "long", "marker"}

\* the header on line 1, then valid rows and rows that fail a structural check
StructuralFile ==
    /\ Len(call.tags) > 1
    /\ call.tags[1] = "header"
    /\ \A j \in 2..Len(call.tags) : call.tags[j] \in {"good"} \cup StructuralTags
    /\ \E j \in 2..Len(call.tags) : call.tags[j] \in StructuralTags

\* C20: in every parser a row of the data section with another number of
\* fields than the format has columns, or with a non-data status marker, is
\* skipped silently: no entry for it, no error because of it, and the rows
\* behind it are still parsed
C20_StructuralRowsSkipped ==
    (Parsed /\ StructuralFile) =>
        /\ call.res.err = "nil"
        /\ Len(call.res.entries) =
              Cardinality({j \in 2..Len(call.tags) : call.tags[j] = "good"})

\* the number of the first line with the expected header, or 0
FirstHeader ==
    IF HasTag("header")
      THEN CHOOSE h \in 1..Len(call.tags) :
               call.tags[h] = "header" /\ \A j \in 1..h - 1 : call.tags[j] # "header"
      ELSE 0

\* C21: the DKB parser finds its header row by content at whatever record
\* it stands, behind any number of preamble records, and parses the rows
\* behind it; when no record of the file equals the expected header, also
\* when the header row has one wrong field name, ParseFile returns a
\* HeaderError with Line 0 and the parser holds no entries
C21_DkbHeader ==
    (Parsed /\ call.p = "dkbParser") =>
        /\ ~HasTag("header") =>
              /\ call.res.err = HeaderError
              /\ call.res.Line = 0
              /\ call.res.entries = <<>>
        /\ (/\ HasTag("header")
            /\ \A j \in FirstHeader + 1..Len(call.tags) : call.tags[j] \in {"good", "blank"}) =>
              /\ call.res.err = "nil"
              /\ Len(call.res.entries) =
                    Cardinality({j \in FirstHeader + 1..Len(call.tags) : call.tags[j] = "good"})

\* the header found on the fourth line behind three preamble records, and
\* a file whose header row has one wrong field name rejected
C21_Witness ==
    /\ Parsed
    /\ call.p = "dkbParser"
    /\ call.tags = <<"preamble", "preamble", "preamble", "header", "good">>
    /\ call.res.err = "nil"
    /\ Len(call.res.entries) = 1

\* C22: isValidVolksbankHeader accepts the header of 19 fields that
\* TestIsValidVolksbankHeader declares valid (with "Kategorie" and
\* "Steuerrelevant" behind "Bemerkung"), and rejects that header with its
\* first field altered and the header cut to its first six fields
C22_VolksbankTestHeader ==
    (call.state = "done" /\ call.op = "isValidHeader" /\ call.p = "volksbankParser") =>
        /\ call.record = headerOk => call.valid
        /\ call.record = headerNok => ~call.valid
        /\ call.record = headerWrongLength => ~call.valid

(***************************************************************************)
(* GetGuessedParser called twice on the text of one file.                  *)
(***************************************************************************)
\* GetGuessedParser's loop over the formats order[i..], given for each parser
\* the results its ParseFile can have on the file: the parser returned ("nil":
\* none) with the entries it holds, or "panic" when a ParseFile panicked
RECURSIVE GuessedFrom(_, _, _)
GuessedFrom(order, i, outcomes) ==
    IF i > Len(order) THEN {[p |-> "nil", entries |-> <<>>]}
    ELSE LET p == GetParser(order[i])
         IN  UNION {IF r.err = "nil" THEN {[p |-> p, entries |-> r.entries]}
                    ELSE IF r.err = "panic" THEN {[p |-> "panic", entries |-> <<>>]}
                    ELSE GuessedFrom(order, i + 1, outcomes) : r \in outcomes[p]}

\* GetGuessedParser(file), with the order GetSourceFormats returned
GetGuessedParserOf(order, file) ==
    GuessedFrom(order, 1, [p \in Parsers |-> ParseFileOf(p, <<>>, file)])

\* a text file with the given rows, separated by semicolons
TextFile(rows) ==
    [kind |-> "csv", sheet1 |-> FALSE,
     lines |-> [i \in 1..Len(rows) |-> LineOf(rows[i], ";")]]

\* the files GetGuessedParser is called with: one file per format; files
\* with the header rows of Comdirect and of DKB and no data row; files of no
\* format; a sheet with a row of 14 cells
GuessFiles ==
    {FileOf(p, <<"header", "good">>) : p \in Parsers}
    \cup {TextFile(<<ComdirectExpected, DkbExpected>>),
          TextFile(<<DkbExpected, ComdirectExpected>>),
          TextFile(<<>>),
          FileOf("dkbParser", <<"headerField", "good">>),
          MissingFile,
          FileOf("barclaycardParser", <<"header", "short">>)}

\* for each file and each order of GetSourceFormats what GetGuessedParser
\* can return
Guessed ==
    [file \in GuessFiles |->
        [order \in FormatOrders |-> GetGuessedParserOf(order, file)]]

NoGuess == [order |-> <<>>, res |-> [p |-> "none", entries |-> <<>>]]

InitGuess ==
    /\ NoBatch
    /\ call \in {[state |-> "call", op |-> "GetGuessedParser", file |-> file,
                  first |-> NoGuess, second |-> NoGuess] : file \in GuessFiles}

\* p := GetGuessedParser(file), GetSourceFormats returning the formats in
\* some order
CallGetGuessedParser ==
    /\ call.state = "call"
    /\ call.op = "GetGuessedParser"
    /\ \E order \in FormatOrders :
          \E r \in Guessed[call.file][order] :
              call' = [call EXCEPT !.state = "once",
                                   !.first = [order |-> order, res |-> r]]
    /\ UNCHANGED batchVars

\* a later call p := GetGuessedParser(file) on the same file
CallGetGuessedParserAgain ==
    /\ call.state = "once"
    /\ \E order \in FormatOrders :
          \E r \in Guessed[call.file][order] :
              call' = [call EXCEPT !.state = "twice",
                                   !.second = [order |-> order, res |-> r]]
    /\ UNCHANGED batchVars

NextGuess ==
    \/ CallGetGuessedParser
    \/ CallGetGuessedParserAgain

SpecGuess == InitGuess /\ [][NextGuess]_vars

\* the parsers whose ParseFile can return nil on each file
Accepting ==
    [file \in GuessFiles |->
        {p \in Parsers : \E r \in ParseFileOf(p, <<>>, file) : r.err = "nil"}]

\* the entries each parser holds after its ParseFile on each file
EntriesOf ==
    [file \in GuessFiles |->
        [p \in Parsers |-> {r.entries : r \in ParseFileOf(p, <<>>, file)}]]

\* C13: GetGuessedParser returns nil exactly when ParseFile fails for each of
\* the five parsers on the file; otherwise it returns a parser whose
\* ParseFile returned nil on the file, of the format it was built for, that
\* holds the entries of that parse; nothing else reaches the caller
C13_GuessedParser ==
    (call.op = "GetGuessedParser" /\ call.state \in {"once", "twice"}) =>
        /\ call.first.res.p \in Parsers \cup {"nil"}
        /\ call.first.res.p = "nil" <=> Accepting[call.file] = {}
        /\ call.first.res.p \in Parsers =>
              /\ call.first.res.p \in Accepting[call.file]
              /\ \E f \in SourceFormats :
                    GetParser(f) = call.first.res.p /\ GetFormat(GetParser(f)) = f
              /\ call.first.res.entries \in EntriesOf[call.file][call.first.res.p]

\* C14: GetGuessedParser tries the formats in the same order on every call
\* and returns the same format for the same file every time, also for a
\* file that more than one parser accepts
C14_Deterministic ==
    (call.op = "GetGuessedParser" /\ call.state = "twice") =>
        /\ call.first.order = call.second.order
        /\ call.first.res.p = call.second.res.p

(***************************************************************************)
(* The HomeBank file, character by character: convertRecord of each format *)
(* and writeHomeBankRecords.                                               *)
(***************************************************************************)
\* strconv.Itoa(n) and the %d verb for a natural number
RECURSIVE Itoa(_)
Itoa(n) == IF n < 10 THEN <<Digits[n + 1]>> ELSE Append(Itoa(n \div 10), Digits[(n % 10) + 1])

\* s with zeros before it up to the width
RECURSIVE ZeroPad(_, _)
ZeroPad(s, width) == IF Len(s) >= width THEN s ELSE ZeroPad(<<"0">> \o s, width)

\* time.Time.Format("2006-01-02")
FormatDate(date) ==
    ZeroPad(Itoa(date.year), 4) \o <<"-">> \o ZeroPad(Itoa(date.month), 2)
        \o <<"-">> \o ZeroPad(Itoa(date.day), 2)

RECURSIVE Pow10(_)
Pow10(n) == IF n = 0 THEN 1 ELSE 10 * Pow10(n - 1)

\* the %f verb: six digits after the point
FormatF(val) ==
    LET micro == IF val.scale <= 6 THEN val.units * Pow10(6 - val.scale)
                 ELSE (val.units + Pow10(val.scale - 6) \div 2) \div Pow10(val.scale - 6)
    IN  (IF val.neg THEN <<"-">> ELSE <<>>) \o Itoa(micro \div 1000000) \o <<".">>
            \o ZeroPad(Itoa(micro % 1000000), 6)

\* the zero value of homebankRecord
homebankRecord ==
    [date |-> <<>>, payment |-> 0, info |-> <<>>, payee |-> <<>>, memo |-> <<>>,
     amount |-> NoDecimal, category |-> <<>>, tags |-> <<>>]

\* strings.Fields(s): the pieces of s between runs of white space
RECURSIVE Fields(_, _, _)
Fields(s, word, words) ==
    IF s = <<>> THEN (IF word = <<>> THEN words ELSE Append(words, word))
    ELSE IF s[1] \in WhiteSpace
      THEN Fields(Tail(s), <<>>, IF word = <<>> THEN words ELSE Append(words, word))
    ELSE Fields(Tail(s), Append(word, s[1]), words)

getFirstNWords(n, s) ==
    LET split == Fields(s, <<>>, <<>>)
    IN  IF n = 0 THEN <<>>
        ELSE IF Len(split) < n THEN s
        ELSE Join(SubSeq(split, 1, n), " ")

\* (v *volksbankRecord) convertRecord
volksbankConvertRecord(v) ==
    [homebankRecord EXCEPT !.payment = 0, !.memo = v.verwendungszweck,
                           !.date = FormatDate(v.buchungstag), !.amount = v.betrag,
                           !.payee = v.nameZahlungsbeteiligter]

\* (m *moneywalletRecord) convertRecord
moneywalletConvertRecord(m) ==
    [homebankRecord EXCEPT !.category = m.category, !.payment = 0,
                           !.info = m.description, !.date = FormatDate(m.datetime),
                           !.amount = m.money]

\* (b *barclaycardRecord) convertRecord
barclaycardConvertRecord(b) ==
    [date |-> FormatDate(b.transactionDate), payment |-> 1, info |-> b.description,
     payee |-> b.payee, memo |-> <<>>, amount |-> b.value, category |-> <<>>,
     tags |-> <<>>]

\* a convertRecord that takes the payee column whatever the amount is
dkbConvertRecordPayeeAlways(d) ==
    [homebankRecord EXCEPT !.payment = 0, !.date = FormatDate(d.buchungsdatum),
                           !.payee = d.zahlungsempfaenger,
                           !.memo = d.verwendungszweck, !.amount = d.betrag_eur]

\* (d *dkbRecord) convertRecord
dkbConvertRecord(d) ==
    [homebankRecord EXCEPT !.payment = 0, !.date = FormatDate(d.buchungsdatum),
                           !.payee = IF d.betrag_eur.neg THEN d.zahlungsempfaenger ELSE <<>>,
                           !.memo = d.verwendungszweck, !.amount = d.betrag_eur]

\* a convertRecord that derives the payee whatever the sign of the amount is
comdirectConvertRecordAnySign(c) ==
    [homebankRecord EXCEPT
        !.payment = 0, !.date = FormatDate(c.buchungstag), !.amount = c.umsatz_eur,
        !.memo = c.fullBuchungstext, !.info = getFirstNWords(3, c.buchungstext),
        !.payee = IF c.auftraggeber # <<>> THEN c.auftraggeber
                  ELSE IF c.vorgang = <<"K", "a", "r", "t", "e", "n", "v", "e", "r", "f", "ü", "g", "u", "n", "g">>
                    THEN getFirstNWords(4, c.buchungstext)
                  ELSE c.empfaenger]

\* (c *comdirectRecord) convertRecord
comdirectConvertRecord(c) ==
    [homebankRecord EXCEPT
        !.payment = 0, !.date = FormatDate(c.buchungstag), !.amount = c.umsatz_eur,
        !.memo = c.fullBuchungstext, !.info = getFirstNWords(3, c.buchungstext),
        !.payee = IF ~c.umsatz_eur.neg THEN <<>>
                  ELSE IF c.auftraggeber # <<>> THEN c.auftraggeber
                  ELSE IF c.vorgang = <<"K", "a", "r", "t", "e", "n", "v", "e", "r", "f", "ü", "g", "u", "n", "g">>
                    THEN getFirstNWords(4, c.buchungstext)
                  ELSE c.empfaenger]

\* convertRecord of the record type of parser p
convertRecord(p, entry) ==
    CASE p = "moneywalletParser" -> moneywalletConvertRecord(entry)
      [] p = "barclaycardParser" -> barclaycardConvertRecord(entry)
      [] p = "volksbankParser" -> volksbankConvertRecord(entry)
      [] p = "comdirectParser" -> comdirectConvertRecord(entry)
      [] p = "dkbParser" -> dkbConvertRecord(entry)

\* header of writeHomeBankRecords
HomebankHeader == <<"d", "a", "t", "e", ";", "p", "a", "y", "m", "e", "n", "t", ";", "i", "n", "f", "o", ";", "p", "a", "y", "e", "e", ";", "m", "e", "m", "o", ";", "a", "m", "o", "u", "n", "t", ";", "c", "a", "t", "e", "g", "o", "r", "y", ";", "t", "a", "g", "s">>

\* fmt.Sprintf("%s;%d;%s;%s;%s;%f;%s;%s", ...) of writeHomeBankRecords
Sprintf(rec) ==
    Join(<<rec.date, Itoa(rec.payment), rec.info, rec.payee, rec.memo,
           FormatF(rec.amount), rec.category, rec.tags>>, ";")

\* what the file system does to one call: nothing, os.Create fails, or the
\* n-th fmt.Fprintln fails (n = 0 is the header)
NoFail == [at |-> "none", n |-> 0]

Fails(n) == {NoFail, [at |-> "create", n |-> 0]} \cup {[at |-> "write", n |-> k] : k \in 0..n}

\* the lines writeHomeBankRecords passes to fmt.Fprintln
Printed(records) == <<HomebankHeader>> \o [k \in 1..Len(records) |-> Sprintf(records[k])]

\* the characters of the first n lines, each with the newline of Fprintln
RECURSIVE Written(_, _)
Written(lines, n) ==
    IF n = 0 THEN <<>> ELSE Written(lines, n - 1) \o lines[n] \o <<"\n">>

\* writeHomeBankRecords(records, filepath): the error returned, whether the
\* file was created, and the characters in it (a failing Fprintln is taken
\* to write nothing)
HomeBankFile(records, fail) ==
    IF fail.at = "create"
      THEN [err |-> "create error", created |-> FALSE, text |-> <<>>]
    ELSE IF fail.at = "write" /\ fail.n <= Len(records)
      THEN [err |-> "write error", created |-> TRUE,
            text |-> Written(Printed(records), fail.n)]
    ELSE [err |-> "nil", created |-> TRUE,
          text |-> Written(Printed(records), Len(records) + 1)]

\* hRecords of ConvertToHomebank
hRecords(p, entries) == [k \in 1..Len(entries) |-> convertRecord(p, entries[k])]

\* ConvertToHomebank(filepath) of parser p holding the entries
ConvertToHomebank(p, entries, fail) == HomeBankFile(hRecords(p, entries), fail)

MaxRecords == 2

\* texts of the fields of a record: plain, with the separator of the output,
\* with a line break, with the labels of a Comdirect Buchungstext
PlainText == <<"S", "h", "o", "p">>

SeparatorText == <<"a", ";", "b">>

BreakText == <<"x", "\n", "y">>

LabelText == <<"B", "u", "c", "h", "u", "n", "g", "s", "t", "e", "x", "t", ":", " ", "M", "i", "e", "t", "e", " ", "M", "a", "i", " ", "2", "0", "2", "3", " ", "N", "r", ";", "4", " ", "E", "m", "p", "f", "ä", "n", "g", "e", "r", ":", " ", "M", "a", "x">>

\* the records writeHomeBankRecords is called with: at most one field of a
\* record holds a text that is not plain
WriteRecords ==
    LET plain == [homebankRecord EXCEPT !.date = <<"2", "0", "2", "3", "-", "0", "8", "-", "0", "5">>, !.info = PlainText,
                      !.payee = PlainText, !.memo = PlainText,
                      !.amount = [neg |-> TRUE, units |-> 125, scale |-> 1]]
        other == {<<>>, SeparatorText, BreakText}
    IN  {plain, [plain EXCEPT !.payment = 1,
                              !.amount = [neg |-> FALSE, units |-> 123456, scale |-> 2]]}
        \cup {[plain EXCEPT !.info = t] : t \in other}
        \cup {[plain EXCEPT !.payee = t] : t \in other}
        \cup {[plain EXCEPT !.memo = t] : t \in other}
        \cup {[plain EXCEPT !.category = t] : t \in other \cup {PlainText}}
        \cup {[plain EXCEPT !.tags = t] : t \in other \cup {PlainText}}

\* the texts of the payee and memo columns of the input files; a line of a
\* text file holds no line break, a cell of a workbook may
InputTexts(p) ==
    {PlainText, SeparatorText, LabelText}
        \cup (IF p = "barclaycardParser" THEN {BreakText} ELSE {})

\* the input files ConvertToHomebank is called after: the header and up to
\* MaxRecords booked rows
ConvertFiles(p) ==
    LET rows == {DataRow(p, GoodDate(p), AmountText(p, amount), TRUE, payee, memo) :
                    amount \in {<<"-", "1", "2", ",", "5", "0">>, <<"7", ",", "0", "0">>},
                    payee \in InputTexts(p), memo \in InputTexts(p)}
        fileOf(data) ==
            IF p = "barclaycardParser"
              THEN [kind |-> "xlsx", sheet1 |-> TRUE, lines |-> <<ExpectedHeader(p)>> \o data]
              ELSE [kind |-> "csv", sheet1 |-> FALSE,
                    lines |-> <<LineOf(ExpectedHeader(p), CommaOf(p))>>
                                \o [i \in 1..Len(data) |-> LineOf(data[i], CommaOf(p))]]
    IN  {fileOf(data) : data \in SeqUpTo(rows, MaxRecords)}

\* the entries the parsers hold after ParseFile returned nil on these files
ConvertEntries ==
    [p \in Parsers |->
        UNION {{r.entries : r \in {q \in ParseFileOf(p, <<>>, file) : q.err = "nil"}} :
                  file \in ConvertFiles(p)}]

WriteCall(op, p, entries, records, fail) ==
    [state |-> "call", op |-> op, p |-> p, entries |-> entries, records |-> records,
     fail |-> fail, err |-> "nil", created |-> FALSE, text |-> <<>>]

InitWrite ==
    /\ NoBatch
    /\ \/ \E records \in SeqUpTo(WriteRecords, MaxRecords) :
            \E fail \in Fails(Len(records)) :
                call = WriteCall("writeHomeBankRecords", "none", <<>>, records, fail)
       \/ \E p \in Parsers : \E entries \in ConvertEntries[p] :
            \E fail \in Fails(Len(entries)) :
                call = WriteCall("ConvertToHomebank", p, entries, <<>>, fail)

\* writeHomeBankRecords(records, filepath)
CallWriteHomeBankRecords ==
    /\ call.state = "call"
    /\ call.op = "writeHomeBankRecords"
    /\ LET r == HomeBankFile(call.records, call.fail)
       IN  call' = [call EXCEPT !.state = "done", !.err = r.err,
                                !.created = r.created, !.text = r.text]
    /\ UNCHANGED batchVars

\* p.ConvertToHomebank(filepath)
CallConvertToHomebank ==
    /\ call.state = "call"
    /\ call.op = "ConvertToHomebank"
    /\ LET r == ConvertToHomebank(call.p, call.entries, call.fail)
       IN  call' = [call EXCEPT !.state = "done", !.err = r.err,
                                !.created = r.created, !.text = r.text,
                                !.records = hRecords(call.p, call.entries)]
    /\ UNCHANGED batchVars

NextWrite == CallWriteHomeBankRecords \/ CallConvertToHomebank

SpecWrite == InitWrite /\ [][NextWrite]_vars

\* the lines of a text in which each line ends with a line break
FileLines(text) ==
    LET pieces == Split(text, "\n")
    IN  SubSeq(pieces, 1, Len(pieces) - 1)

\* the eight fields of a record as the file is to hold them
EightFields(rec) ==
    <<rec.date, Itoa(rec.payment), rec.info, rec.payee, rec.memo,
      FormatF(rec.amount), rec.category, rec.tags>>

\* C18: writeHomeBankRecords writes the literal header line
\* date;payment;info;payee;memo;amount;category;tags and then exactly one
\* line per record, in order, of exactly eight fields separated by
\* semicolons, whatever the text fields contain; a failure to create or to
\* write the file is returned to the caller of ConvertToHomebank
C18_EightFields ==
    call.state = "done" /\ call.op \in {"writeHomeBankRecords", "ConvertToHomebank"} =>
        /\ call.fail.at # "none" => call.err # "nil"
        /\ call.err = "nil" =>
             LET lines == FileLines(call.text)
             IN  /\ Len(lines) = 1 + Len(call.records)
                 /\ lines[1] = HomebankHeader
                 /\ \A k \in 1..Len(call.records) :
                        Split(lines[k + 1], ";") = EightFields(call.records[k])

(***************************************************************************)
(* ParseFile on a file of given data rows, then ConvertToHomebank.         *)
(***************************************************************************)
MaxRows == 2

\* of a Comdirect file, whose rows have many shapes
MaxComdirectRows == 1

MaxRowsOf(p) == IF p = "comdirectParser" THEN MaxComdirectRows ELSE MaxRows

\* the data rows of DKB files: booked or not, the two names, the
\* transaction type and the amount
DkbRows ==
    [booked : BOOLEAN, payer : {<<"D", "K", "B", " ", "A", "G">>, <<"M", "a", "x">>}, payee : {<<"D", "K", "B", " ", "A", "G">>, <<"S", "h", "o", "p">>},
     typ : {<<"E", "i", "n", "g", "a", "n", "g">>, <<"A", "u", "s", "g", "a", "n", "g">>}, amount : {<<"0", ",", "0", "0">>, <<"-", "0", ",", "0", "0">>, <<"-", "1", "2", ",", "5", "0">>, <<"7", ",", "0", "0">>}]

\* the data rows of Comdirect files: the transaction type, the amount, which
\* of the labels Auftraggeber, Buchungstext and Empfänger the Buchungstext
\* column holds, and the texts behind them
ComdirectRows ==
    {d \in [vorgang : {<<"K", "a", "r", "t", "e", "n", "v", "e", "r", "f", "ü", "g", "u", "n", "g">>, <<"L", "a", "s", "t", "s", "c", "h", "r", "i", "f", "t">>},
            amount : {<<"0", ",", "0", "0">>, <<"-", "1", "2", ",", "5", "0">>, <<"7", ",", "0", "0">>},
            labels : SUBSET {"A", "B", "E"},
            a : {<<>>, <<"S", "t", "a", "d", "t", "w", "e", "r", "k", "e">>},
            b : {<<>>, <<"E", "i", "n", "k", "a", "u", "f", " ", "b", "e", "i", " ", "S", "h", "o", "p", " ", "N", "r", " ", "7", " ", "B", "e", "r", "l", "i", "n">>, <<"M", "i", "e", "t", "e", " ", " ", "M", "a", "i">>},
            e : {<<>>, <<"M", "a", "x">>}] :
        /\ "A" \notin d.labels => d.a = <<>>
        /\ "B" \notin d.labels => d.b = <<>>
        /\ "E" \in d.labels <=> d.e # <<>>}

\* the Buchungstext column of the Comdirect row d
ComdirectText(d) ==
    (IF "A" \in d.labels THEN <<"A", "u", "f", "t", "r", "a", "g", "g", "e", "b", "e", "r", ":", " ">> \o d.a \o <<" ">> ELSE <<>>)
        \o (IF "B" \in d.labels THEN <<"B", "u", "c", "h", "u", "n", "g", "s", "t", "e", "x", "t", ":", " ">> \o d.b \o <<" ">> ELSE <<>>)
        \o (IF "E" \in d.labels THEN <<"E", "m", "p", "f", "ä", "n", "g", "e", "r", ":", " ">> \o d.e ELSE <<>>)

\* the data rows of Barclaycard sheets: the cells of the transaction date,
\* of the settlement date (empty: pending) and of the amount, and whether
\* the cells behind them are filled
BarclaycardRows ==
    [tdate : {<<"0", "5", ".", "0", "8", ".", "2", "0", "2", "3">>, <<"2", "0", "2", "3", "-", "0", "8", "-", "0", "5">>, <<>>}, bdate : {<<"0", "7", ".", "0", "8", ".", "2", "0", "2", "3">>, <<>>},
     amount : {<<"-", "1", "2", ",", "5", "0", " ", "€">>, <<"a", "b", "c">>, <<>>},
     filled : BOOLEAN]

\* the fields of the row d of the format of parser p
FieldsOfRow(p, d) ==
    CASE p = "dkbParser" ->
           [GoodRow(p) EXCEPT ![3] = IF d.booked THEN <<"G", "e", "b", "u", "c", "h", "t">> ELSE <<"V", "o", "r", "g", "e", "m", "e", "r", "k", "t">>,
                              ![4] = d.payer, ![5] = d.payee, ![7] = d.typ,
                              ![9] = d.amount]
      [] p = "comdirectParser" ->
           [GoodRow(p) EXCEPT ![3] = d.vorgang, ![4] = ComdirectText(d), ![5] = d.amount]
      [] p = "barclaycardParser" ->
           [i \in 1..Len(GoodRow(p)) |->
               CASE i = 2 -> d.tdate
                 [] i = 3 -> d.bdate
                 [] i = 4 -> d.amount
                 [] i > 4 /\ ~d.filled -> <<>>
                 [] OTHER -> GoodRow(p)[i]]

\* the rows of the files of the format of parser p
RowsOf(p) ==
    CASE p = "dkbParser" -> DkbRows
      [] p = "comdirectParser" -> ComdirectRows
      [] p = "barclaycardParser" -> BarclaycardRows

\* the file with the header of the format of parser p and the given rows
FileOfRows(p, rows) ==
    IF p = "barclaycardParser"
      THEN [kind |-> "xlsx", sheet1 |-> TRUE,
            lines |-> <<ExpectedHeader(p)>> \o [i \in 1..Len(rows) |-> FieldsOfRow(p, rows[i])]]
      ELSE [kind |-> "csv", sheet1 |-> FALSE,
            lines |-> <<LineOf(ExpectedHeader(p), CommaOf(p))>>
                        \o [i \in 1..Len(rows) |-> LineOf(FieldsOfRow(p, rows[i]), CommaOf(p))]]

RowParsers == {"dkbParser", "comdirectParser", "barclaycardParser"}

InitRows ==
    /\ NoBatch
    /\ \E p \in RowParsers : \E rows \in SeqUpTo(RowsOf(p), MaxRowsOf(p)) :
          call = [state |-> "call", op |-> "ParseFile", p |-> p, rows |-> rows,
                  file |-> FileOfRows(p, rows), res |-> NoResult,
                  records |-> <<>>, err |-> "nil", text |-> <<>>]

\* err := p.ParseFile(file)
CallParseRows ==
    /\ call.state = "call"
    /\ \E r \in ParseFileOf(call.p, <<>>, call.file) :
          call' = [call EXCEPT !.state = IF r.err = "nil" THEN "parsed" ELSE "failed",
                               !.res = r]
    /\ UNCHANGED batchVars

\* err = p.ConvertToHomebank(outfile) after ParseFile returned nil
CallConvertRows ==
    /\ call.state = "parsed"
    /\ LET r == ConvertToHomebank(call.p, call.res.entries, NoFail)
       IN  call' = [call EXCEPT !.state = "done", !.op = "ConvertToHomebank",
                                !.records = hRecords(call.p, call.res.entries),
                                !.err = r.err, !.text = r.text]
    /\ UNCHANGED batchVars

NextRows == CallParseRows \/ CallConvertRows

SpecRows == InitRows /\ [][NextRows]_vars

\* the amounts that are zero, and those below zero
ZeroAmounts == {<<"0", ",", "0", "0">>, <<"-", "0", ",", "0", "0">>}

Negative(amount) == amount # <<>> /\ amount[1] = "-" /\ amount \notin ZeroAmounts

\* the synthetic settlement record of DKB
Settlement(d) ==
    /\ d.typ = <<"E", "i", "n", "g", "a", "n", "g">>
    /\ d.amount \in ZeroAmounts
    /\ d.payer = <<"D", "K", "B", " ", "A", "G">>
    /\ d.payee = <<"D", "K", "B", " ", "A", "G">>

\* the rows of a DKB file that are to become entries
DkbKept(d) == d.booked /\ ~Settlement(d)

\* C23: a booked DKB row with transaction type "Eingang", amount 0 and both
\* name fields "DKB AG" becomes no entry and no record of the output; every
\* other booked row of 12 fields with valid dates and amount becomes exactly
\* one entry, in file order, and its payee in the output is the payee column
\* when the amount is negative and empty otherwise
C23_DkbSettlement ==
    (call.state \in {"failed", "parsed", "done"} /\ call.p = "dkbParser") =>
        LET kept == SelectSeq(call.rows, DkbKept)
        IN  /\ call.res.err = "nil"
            /\ Len(call.res.entries) = Len(kept)
            /\ \A k \in 1..Len(kept) :
                  /\ call.res.entries[k].zahlungspflichtiger = kept[k].payer
                  /\ call.res.entries[k].zahlungsempfaenger = kept[k].payee
                  /\ call.res.entries[k].umsatztyp = kept[k].typ
            /\ call.state = "done" =>
                  /\ Len(call.records) = Len(kept)
                  /\ Len(FileLines(call.text)) = 1 + Len(kept)
                  /\ \A k \in 1..Len(kept) :
                        call.records[k].payee =
                            IF Negative(kept[k].amount) THEN kept[k].payee ELSE <<>>

\* the settlement record between two booked rows, one of them with a
\* negative amount, left out of the output
C23_Witness ==
    /\ call.state = "done"
    /\ call.p = "dkbParser"
    /\ Len(call.rows) = 2
    /\ Settlement(call.rows[1]) /\ call.rows[1].booked
    /\ DkbKept(call.rows[2]) /\ Negative(call.rows[2].amount)
    /\ Len(call.records) = 1
    /\ call.records[1].payee = call.rows[2].payee

(***************************************************************************)
(* splitComdirectBuchungstext called with a label list and with a          *)
(* permutation of it.                                                      *)
(***************************************************************************)
MaxText == 5

\* the characters of the short texts, and the labels over them
SplitAlphabet == {"a", "b", ":", " "}

SplitLabels == {<<"a">>, <<"b">>, <<"a", "b">>, <<"a", ":", "b">>}

\* fields and buchungstext of TestSplitComdirectBuchungstextGeneral
TestFields == <<<<"f", "i", "r", "s", "t">>, <<"s", "e", "c", "o", "n", "d">>, <<"t", "h", "i", "r", "d">>>>

TestBuchungstext == <<"f", "i", "r", "s", "t", ":", "a", "b", "c", "f", "i", "r", "s", "t", "s", "e", "c", "o", "n", "d", ":", "a", "b", "c", "s", "e", "c", "o", "n", "d", " ", "t", "h", "i", "r", "d", ":", "a", "b", "c", "t", "h", "i", "r", "d">>

\* the permutations of a list
ListPermutations(list) ==
    {[i \in 1..Len(list) |-> list[f[i]]] :
        f \in {g \in [1..Len(list) -> 1..Len(list)] :
                  \A i, j \in 1..Len(list) : g[i] = g[j] => i = j}}

NoSplit == [panic |-> FALSE, result |-> <<>>]

SplitCall(fields, other, text) ==
    [state |-> "call", op |-> "splitComdirectBuchungstext", fields |-> fields,
     other |-> other, text |-> text, res |-> NoSplit, res2 |-> NoSplit]

InitSplit ==
    /\ NoBatch
    /\ \/ \E fields \in SeqUpTo(SplitLabels, 2) : \E other \in ListPermutations(fields) :
            \E text \in SeqUpTo(SplitAlphabet, MaxText) :
                call = SplitCall(fields, other, text)
       \/ \E n \in 0..3 : \E other \in ListPermutations(SubSeq(TestFields, 1, n)) :
            \E text \in {TestBuchungstext, <<>>} :
                call = SplitCall(SubSeq(TestFields, 1, n), other, text)
       \/ \E fields \in ListPermutations(ListOfFields) : \E text \in {LabelText, PlainText} :
            call = SplitCall(ListOfFields, fields, text)

\* splitComdirectBuchungstext(fields, buchungstext)
CallSplit ==
    /\ call.state = "call"
    /\ call.op = "splitComdirectBuchungstext"
    /\ call' = [call EXCEPT !.state = "once",
                            !.res = splitComdirectBuchungstext(call.fields, call.text)]
    /\ UNCHANGED batchVars

\* the same call with the labels in another order
CallSplitPermuted ==
    /\ call.state = "once"
    /\ call.op = "splitComdirectBuchungstext"
    /\ call' = [call EXCEPT !.state = "both",
                            !.res2 = splitComdirectBuchungstext(call.other, call.text)]
    /\ UNCHANGED batchVars

NextSplit == CallSplit \/ CallSplitPermuted

SpecSplit == InitSplit /\ [][NextSplit]_vars

\* C24: splitComdirectBuchungstext does not depend on the order of the label
\* list: for every text and every list of labels, the call with any
\* permutation of the list returns the same result map
C24_OrderIndependent ==
    (call.state = "both" /\ call.op = "splitComdirectBuchungstext") =>
        call.res2 = call.res

\* the labels of the list whose marker "L:" stands in the text
LabelsPresent ==
    {call.fields[k] : k \in {i \in 1..Len(call.fields) :
                                Index(call.text, Append(call.fields[i], ":")) > 0}}

\* the position of the first marker that starts behind the marker of the
\* label, or the position behind the end of the text
NextMarker(label) ==
    LET at == Index(call.text, Append(label, ":"))
        later == {Index(call.text, Append(l, ":")) : l \in LabelsPresent} \cap
                     (at + 1..Len(call.text))
    IN  IF later = {} THEN Len(call.text) + 1
        ELSE CHOOSE j \in later : \A k \in later : j <= k

\* C25: for every text and every label list, splitComdirectBuchungstext
\* returns normally, also when markers overlap, repeat or stand in another
\* order than the labels of the list; the keys of the map are exactly the
\* labels whose marker "L:" stands in the text, and each maps to the text
\* between the end of its marker and the start of the next marker by
\* position (or the end of the text), without surrounding white space
C25_SplitResult ==
    (call.state \in {"once", "both"} /\ call.op = "splitComdirectBuchungstext") =>
        /\ ~call.res.panic
        /\ DOMAIN call.res.result = LabelsPresent
        /\ \A label \in LabelsPresent :
              call.res.result[label] =
                  TrimSpace(SubSeq(call.text,
                                   Index(call.text, Append(label, ":")) + Len(label) + 1,
                                   NextMarker(label) - 1))

\* the words of a text, and the first n of them
Words(text) == Fields(text, <<>>, <<>>)

FirstWords(n, text) ==
    SubSeq(Words(text), 1, IF Len(Words(text)) < n THEN Len(Words(text)) ELSE n)

\* C26: the payee of a Comdirect record in the output is empty when the
\* amount is zero or positive; for a negative amount it is the Auftraggeber
\* sub-field when that is not empty, else the first four words of the
\* Buchungstext sub-field when the transaction type is "Kartenverfügung",
\* else the Empfänger sub-field
C26_ComdirectPayee ==
    (call.state \in {"failed", "parsed", "done"} /\ call.p = "comdirectParser") =>
        /\ call.res.err = "nil"
        /\ Len(call.res.entries) = Len(call.rows)
        /\ call.state = "done" =>
              /\ Len(call.records) = Len(call.rows)
              /\ \A k \in 1..Len(call.rows) :
                    LET d == call.rows[k]
                        payee == call.records[k].payee
                    IN  IF ~Negative(d.amount) THEN payee = <<>>
                        ELSE IF d.a # <<>> THEN payee = d.a
                        ELSE IF d.vorgang = <<"K", "a", "r", "t", "e", "n", "v", "e", "r", "f", "ü", "g", "u", "n", "g">>
                          THEN Words(payee) = FirstWords(4, d.b)
                        ELSE payee = d.e

\* a card payment with a negative amount, no Auftraggeber and a Buchungstext
\* of more than four words
C26_Witness ==
    /\ call.state = "done"
    /\ call.p = "comdirectParser"
    /\ Len(call.rows) = 1
    /\ Negative(call.rows[1].amount)
    /\ call.rows[1].a = <<>>
    /\ call.rows[1].vorgang = <<"K", "a", "r", "t", "e", "n", "v", "e", "r", "f", "ü", "g", "u", "n", "g">>
    /\ Len(Words(call.rows[1].b)) > 4
    /\ call.records[1].payee = <<"E", "i", "n", "k", "a", "u", "f", " ", "b", "e", "i", " ", "S", "h", "o", "p", " ", "N", "r">>

\* a row of a Barclaycard sheet without settlement date, and a row with
\* valid dates and amount and all cells filled
Pending(d) == d.bdate = <<>>

Booked(d) ==
    /\ d.tdate = <<"0", "5", ".", "0", "8", ".", "2", "0", "2", "3">>
    /\ d.bdate = <<"0", "7", ".", "0", "8", ".", "2", "0", "2", "3">>
    /\ d.amount = <<"-", "1", "2", ",", "5", "0", " ", "€">>
    /\ d.filled

\* C27: in the Barclaycard parser every row behind the header whose
\* settlement date cell (third column) is empty is skipped without error
\* and adds no entry, whatever its other cells hold, and ParseFile goes on
\* with the rows behind it; every other row becomes one entry, with payment
\* code 1 and the transaction date (second column) as date in the output
C27_PendingRows ==
    (/\ call.state \in {"failed", "parsed", "done"}
     /\ call.p = "barclaycardParser"
     /\ \A k \in 1..Len(call.rows) : Pending(call.rows[k]) \/ Booked(call.rows[k])) =>
        /\ call.res.err = "nil"
        /\ Len(call.res.entries) = Len(SelectSeq(call.rows, Booked))
        /\ call.state = "done" =>
              /\ Len(call.records) = Len(SelectSeq(call.rows, Booked))
              /\ \A k \in 1..Len(call.records) :
                    /\ call.records[k].payment = 1
                    /\ call.records[k].date = <<"2", "0", "2", "3", "-", "0", "8", "-", "0", "5">>

(***************************************************************************)
(* The shape of the status tree of BatchConvert.                           *)
(***************************************************************************)
\* where a status stands in the order of a set's files: terminal statuses
\* first, then the file in progress, then the files not started
Rank(state) ==
    IF state \in TerminalStatuses THEN 0
    ELSE IF state = ConversionInProgress THEN 1
    ELSE 2

\* the tree st has the shape the loops of BatchConvert leave
TreeShape(st) ==
    /\ \A id \in FileIds(st) :
          /\ StatusOf(st, id) \in TerminalStatuses
                                    \cup {ConversionInProgress, NotStartedYet}
          /\ id[2] > 1 =>
                Rank(StatusOf(st, <<id[1], id[2] - 1>>)) <= Rank(StatusOf(st, id))
          /\ id[1] < Len(st) => StatusOf(st, id) \in TerminalStatuses
          /\ st[id[1]].Files[id[2]].OutputFile = NoPath <=>
                StatusOf(st, id) = NotStartedYet
          /\ StatusOf(st, id) \in {NotStartedYet, Skipped, ConversionInProgress} =>
                st[id[1]].Files[id[2]].Format = NilFormat
    /\ Cardinality({id \in FileIds(st) : StatusOf(st, id) = ConversionInProgress}) <= 1

\* C28: at every invocation of the callback and at the return of
\* BatchConvert, the statuses of the files of each set are, in file order,
\* terminal statuses (Skipped, Error, Success), then at most one file in
\* progress, then files not started only; at most one file of the whole
\* tree is in progress, every set before the one being processed is
\* terminal throughout, OutputFile is empty exactly for the files not
\* started, and Format is nil for every file that is not started, skipped
\* or in progress
C28_TreeShape ==
    /\ cbCount > 0 => TreeShape(cbStatus)
    /\ pc = "returned" => TreeShape(status)

\* the callback is given a tree whose second set has a terminal file, a file
\* in progress and the first set terminal
C28_Witness ==
    /\ cbCount > 0
    /\ Len(cbStatus) = 2
    /\ Len(cbStatus[1].Files) > 0
    /\ Len(cbStatus[2].Files) > 1
    /\ StatusOf(cbStatus, <<2, 1>>) \in TerminalStatuses
    /\ StatusOf(cbStatus, <<2, 2>>) = ConversionInProgress

(***************************************************************************)
(* C29: one output file per output path.                                   *)
(***************************************************************************)
\* the name with its extension (the part from its last dot on) replaced by .csv
WithCsvExtension(name) ==
    LET dots == {i \in 1..Len(name) : name[i] = "."}
        stem == IF dots = {} THEN name
                ELSE SubSeq(name, 1, (CHOOSE i \in dots : \A j \in dots : j <= i) - 1)
    IN stem \o <<".", "c", "s", "v">>

\* the output path of the file id of the tree st
ExpectedOutput(st, id) ==
    [dir |-> sets[id[1]].OutputDir, name |-> WithCsvExtension(st[id[1]].Files[id[2]].InputFile.name)]

\* the file a comes before the file b in the order of the sets and their files
Earlier(a, b) == a[1] < b[1] \/ (a[1] = b[1] /\ a[2] < b[2])

\* C29: the output path of a file is the output directory of its set joined
\* with its base name, the extension replaced by .csv; no two Success files
\* of a run have the same output path; no output path is written twice in a
\* run; and a candidate reached when its output path has been written in this
\* run becomes Skipped, and nothing is parsed or written for it
C29_OneOutputPerPath ==
    /\ [](\A id \in FileIds(status) :
             LET f == status[id[1]].Files[id[2]] IN
             f.Status # NotStartedYet => f.OutputFile = ExpectedOutput(status, id))
    /\ [](\A a, b \in FileIds(status) :
             (a # b /\ StatusOf(status, a) = ConversionSuccess
                    /\ StatusOf(status, b) = ConversionSuccess)
                 => status[a[1]].Files[a[2]].OutputFile # status[b[1]].Files[b[2]].OutputFile)
    /\ [](\A i, j \in 1..Len(written) : i # j => written[i] # written[j])
    /\ [][(pc = "file" /\ \E k \in 1..Len(written) :
                              written[k] = ExpectedOutput(status, <<setNr, fileNr>>))
              => /\ StatusOf(status', <<setNr, fileNr>>) = Skipped
                 /\ written' = written /\ parsed' = parsed /\ fs' = fs]_vars

\* BatchConvert has returned from a first run in which a file was written to
\* a path that was free, a later file of the same set with that output path
\* was Skipped, and so was a file of a later set with that output path
C29_Witness ==
    /\ pc = "returned" /\ run = 1
    /\ \E a, b, c \in FileIds(status) :
          LET fa == status[a[1]].Files[a[2]]
              fb == status[b[1]].Files[b[2]]
              fc == status[c[1]].Files[c[2]]
          IN /\ a[1] = b[1] /\ Earlier(a, b) /\ a[1] < c[1]
             /\ fa.Status = ConversionSuccess /\ ~ Present(fs0, fa.OutputFile)
             /\ fa.InputFile.name = NameACsv /\ fb.InputFile.name = NameAXlsx
             /\ fb.OutputFile = fa.OutputFile /\ fb.Status = Skipped
             /\ fc.OutputFile = fa.OutputFile /\ fc.Status = Skipped

(***************************************************************************)
(* C30: how ParseFile ends.                                                *)
(***************************************************************************)
\* the ways the claim lets ParseFile end: nil or a *ParserError
ParseFileReturns == {"nil", IOError, HeaderError, DataParsingError}

\* C30: ParseFile of every parser ends by returning nil or a *ParserError
\* for every input file, also for a file with rows of fewer cells than the
\* parser reads: it never ends in an access out of range
C30_ParseFileReturns ==
    (call.state = "done" /\ call.op = "ParseFile") => call.res.err \in ParseFileReturns

====
